---- MODULE Spec2Model ----
(***************************************************************************)
(* Model of the AgentCore memory gateway client                            *)
(* (agentic_platform/service/memory_gateway/client/memory/                 *)
(*  agentcore_memory_client.py): the poll-to-terminal loops, the lazy      *)
(* resolution of the memory resource id, and session resolution.           *)
(*                                                                         *)
(* Strings are sequences of word tokens, so that Python's substring test   *)
(* ("x" in str(e)), str.split and str.replace are computed, not assumed.   *)
(* None (and the equally falsy empty string) is the empty sequence.        *)
(***************************************************************************)
EXTENDS Integers, Sequences, FiniteSets, TLC

\* ------------------------------------------------------------------------
\* Bounds of the model (not program constants)
\* ------------------------------------------------------------------------
MaxAttempts == 3
MaxTime == 3
MaxEvents == 2

\* ------------------------------------------------------------------------
\* Program constants
\* ------------------------------------------------------------------------
DefaultMaxAttempts == 20
CreationDelaySeconds == 30
DeletionDelaySeconds == 10
TestDelaySeconds == 5
EpochTime == 0

\* ------------------------------------------------------------------------
\* Strings as token sequences
\* ------------------------------------------------------------------------
None == << >>

\* Python truthiness of an optional string: None and "" are falsy.
Truthy(x) == x # None

\* Python's `needle in hay` for strings.
Contains(needle, hay) ==
    \E i \in 0..(Len(hay) - Len(needle)) :
        \A j \in 1..Len(needle) : hay[i + j] = needle[j]

\* Python values that reach the wait functions positionally.
IntV(n) == [t |-> "int", s |-> None, n |-> n]
StrV(x) == [t |-> "str", s |-> x, n |-> 0]
ClientV == [t |-> "client", s |-> None, n |-> 0]
NoneV == [t |-> "none", s |-> None, n |-> 0]

\* An optional string as a Python value.
OptV(x) == IF x = None THEN NoneV ELSE StrV(x)

\* ------------------------------------------------------------------------
\* Exceptions
\* ------------------------------------------------------------------------
NoExc == [type |-> "None", msg |-> None]
Exc(type, msg) == [type |-> type, msg |-> msg]

MsgMemoryNotFound == <<"ResourceNotFoundException", ":", "Memory", "not", "found">>
MsgDoesNotExist == <<"Memory", "does", "not", "exist">>
MsgUnavailable == <<"ServiceException", ":", "Service", "unavailable">>

\* What the backend says when a resource is absent, and when it hiccups.
NotFoundErrors == {Exc("ClientError", MsgMemoryNotFound), Exc("ClientError", MsgDoesNotExist)}
TransientErrors == {Exc("ClientError", MsgUnavailable)}

\* botocore rejects a call whose string parameter is None or an object.
ParamValidationError ==
    Exc("ParamValidationError", <<"Parameter", "validation", "failed">>)

\* str + int in `range(1, max_attempts + 1)`
ConcatTypeError ==
    Exc("TypeError", <<"can", "only", "concatenate", "str", "(not", "int)", "to", "str">>)

\* ------------------------------------------------------------------------
\* The deployment environment and the resource ids the backend assigns
\* ------------------------------------------------------------------------
ENVIRONMENT == <<"AgentCore", "-", "AgentPath">>

Suffixes == {"a1", "b2"}
Statuses == {"ABSENT", "CREATING", "ACTIVE", "FAILED", "DELETING"}

\* The backend assigns ids of the form <name>-<suffix>.
BackendMemoryId(name, sfx) == name \o <<"-", sfx>>

MemoryName == [i \in 1..Len(ENVIRONMENT) |->
                 IF ENVIRONMENT[i] = "-" THEN "_" ELSE ENVIRONMENT[i]]
MemId(sfx) == BackendMemoryId(MemoryName, sfx)
MemoryIds == {MemId(sfx) : sfx \in Suffixes}

\* ------------------------------------------------------------------------
\* Values returned by the operations
\* ------------------------------------------------------------------------
RetBase == [kind |-> "None", id |-> None, status |-> "", user |-> None,
            messages |-> << >>, events |-> << >>]
MemoryDetails(id, st) == [RetBase EXCEPT !.kind = "memory_details", !.id = id, !.status = st]
TrueV == [RetBase EXCEPT !.kind = "True"]
IdV(id) == [RetBase EXCEPT !.kind = "str", !.id = id]

\* ------------------------------------------------------------------------
\* State
\* ------------------------------------------------------------------------
VARIABLES
    agentcore_memory_id,  \* module global: the process-wide cached id
    ssm_param,            \* configuration store: /{ENVIRONMENT}/agentcore_memory_id
    memories,             \* backend control plane: suffix -> status
    pc,                   \* position of the running operation
    stack,                \* return positions of the callers
    op,                   \* the operation invoked from idle
    ret,                  \* value returned by the last finished call
    exc,                  \* exception raised by the last finished call
    memory_id,            \* wait loops: parameter memory_id
    max_attempts,         \* wait loops: parameter max_attempts
    delay_seconds,        \* wait loops: parameter delay_seconds
    attempt,              \* wait loops: loop variable
    request,              \* the request object of the running operation
    response,             \* _get_agentcore_memory_id: local `response`
    created,              \* create_memory_provider: local `memory_id`
    calls,                \* number of calls per client method by the running operation
    log,                  \* the calls of the running operation, in order, with arguments
    obs,                  \* what the running wait loop has observed
    stream                \* backend data plane: number of events appended so far

vars == <<agentcore_memory_id, ssm_param, memories, pc, stack, op, ret, exc,
          memory_id, max_attempts, delay_seconds, attempt, request, response,
          created, calls, log, obs, stream>>

CallNames == {"get_parameters_by_path", "put_parameter", "create_memory",
              "list_memories", "get_memory", "update_memory", "delete_memory",
              "list_sessions",
              "list_events", "create_event", "sleep"}
NoCalls == [c \in CallNames |-> 0]

NoRequest == [user_id |-> None, session_id |-> None, next_token |-> None, limit |-> 0]

\* One entry of the call log: the method and the arguments that matter.
NoAnswer == [ok |-> TRUE, exc |-> [type |-> "None", msg |-> << >>], items |-> << >>,
             token |-> << >>]
NoParams == [k \in {} |-> NoneV]
CallRec(c) == [call |-> c, memoryId |-> NoneV, actorId |-> None, sessionId |-> None,
               nextToken |-> None, hasToken |-> FALSE, value |-> None, n |-> 0,
               params |-> NoParams, answer |-> NoAnswer]
Failed(e) == [NoAnswer EXCEPT !.ok = FALSE, !.exc = e]
Answered(items) == [NoAnswer EXCEPT !.items = items]
\* A page of a paginated listing: the items and the response's nextToken.
AnsweredPage(items, tok) == [NoAnswer EXCEPT !.items = items, !.token = tok]

\* The log of an operation starts with its invocation.
Invocation(name, req) ==
    <<[CallRec(name) EXCEPT !.actorId = req.user_id, !.sessionId = req.session_id,
                            !.nextToken = req.next_token, !.n = req.limit]>>
Called(a) ==
    /\ calls' = [calls EXCEPT ![a.call] = @ + 1]
    /\ log' = Append(log, a)


NoObs == [checks |-> 0, sleeps |-> 0, slept |-> 0, firstTerminal |-> 0,
          sawNotFound |-> FALSE, sawStatus |-> FALSE, sawOther |-> FALSE,
          last |-> "none"]

\* ------------------------------------------------------------------------
\* Call and return
\* ------------------------------------------------------------------------
\* A frame that finishes hands control to the position on top of stk.
ReturnTo(stk, val) ==
    /\ ret' = val
    /\ exc' = NoExc
    /\ pc' = IF stk = << >> THEN "done" ELSE Head(stk)
    /\ stack' = IF stk = << >> THEN << >> ELSE Tail(stk)

RaiseTo(stk, e) ==
    /\ ret' = RetBase
    /\ exc' = e
    /\ pc' = IF stk = << >> THEN "done" ELSE Head(stk)
    /\ stack' = IF stk = << >> THEN << >> ELSE Tail(stk)

\* ------------------------------------------------------------------------
\* Backend control plane: get_memory
\* ------------------------------------------------------------------------
Response(ok, details, e) == [ok |-> ok, memory |-> details, exc |-> e]

\* What agentcore_control_client.get_memory(memoryId=mid) can answer now: the
\* resource's details, "not found" while it is absent or not yet visible
\* after its creation, or a transient failure.
GetMemoryResponses(mid) ==
    IF mid.t # "str" THEN {Response(FALSE, RetBase, ParamValidationError)} ELSE
    LET found == {sfx \in Suffixes : mid.t = "str" /\ mid.s = MemId(sfx)
                                      /\ memories[sfx] # "ABSENT"}
    IN  {Response(TRUE, MemoryDetails(MemId(sfx), memories[sfx]), NoExc) : sfx \in found}
        \cup (IF \A sfx \in found : memories[sfx] = "CREATING"
              THEN {Response(FALSE, RetBase, e) : e \in NotFoundErrors} ELSE {})
        \cup {Response(FALSE, RetBase, e) : e \in TransientErrors}

\* The backend converges on its own: CREATING ends ACTIVE or FAILED, DELETING
\* ends with the resource gone.
BackendAdvance ==
    /\ \E sfx \in Suffixes :
         \/ /\ memories[sfx] = "CREATING"
            /\ \E st \in {"ACTIVE", "FAILED"} : memories' = [memories EXCEPT ![sfx] = st]
         \/ /\ memories[sfx] = "DELETING"
            /\ memories' = [memories EXCEPT ![sfx] = "ABSENT"]
    /\ UNCHANGED <<agentcore_memory_id, ssm_param, pc, stack, op, ret, exc,
                   memory_id, max_attempts, delay_seconds, attempt, request,
                   response, created, calls, log, obs>>
    /\ UNCHANGED stream

\* ------------------------------------------------------------------------
\* Wait loops: what one status check contributes to the observation record
\* ------------------------------------------------------------------------
IsActiveResponse(r) == r.ok /\ r.memory.status = "ACTIVE"
IsNotFoundResponse(r) == ~r.ok /\ r.exc \in NotFoundErrors
IsOtherErrorResponse(r) == ~r.ok /\ r.exc \notin NotFoundErrors

ResponseClass(r) ==
    IF r.ok THEN r.memory.status
    ELSE IF r.exc \in NotFoundErrors THEN "not_found" ELSE "other_error"

Observe(o, r, terminal) ==
    [o EXCEPT !.checks = @ + 1,
              !.firstTerminal = IF @ = 0 /\ terminal THEN o.checks + 1 ELSE @,
              !.sawNotFound = @ \/ IsNotFoundResponse(r),
              !.sawStatus = @ \/ r.ok,
              !.sawOther = @ \/ IsOtherErrorResponse(r),
              !.last = ResponseClass(r)]

Slept(o, d) == [o EXCEPT !.sleeps = @ + 1, !.slept = @ + d, !.last = "sleep"]

TimeoutPeriodWords == <<"within", "the", "timeout", "period">>
CreationTimeoutError(mid) ==
    Exc("TimeoutError",
        <<"Memory">> \o mid.s \o <<"did", "not", "become", "available">> \o TimeoutPeriodWords)
DeletionTimeoutError(mid) ==
    Exc("TimeoutError",
        <<"Memory">> \o mid.s \o <<"was", "not", "deleted">> \o TimeoutPeriodWords)

\* `"Memory not found" in str(e) or "does not exist" in str(e)`
SaysNotFound(e) ==
    \/ Contains(<<"Memory", "not", "found">>, e.msg)
    \/ Contains(<<"does", "not", "exist">>, e.msg)

\* Mutant: sleeps after the last attempt too.
SleepsAfter_EveryAttempt(a, n) == a <= n

\* `if attempt < max_attempts: time.sleep(delay_seconds)`
SleepsAfter(a, n) == a < n

\* ------------------------------------------------------------------------
\* _wait_for_memory_provider_creation(memory_id, max_attempts=20, delay_seconds=30)
\* ------------------------------------------------------------------------
BindWaitCreation(args) ==
    [memory_id |-> args[1],
     max_attempts |-> IF Len(args) >= 2 THEN args[2] ELSE IntV(DefaultMaxAttempts),
     delay_seconds |-> IF Len(args) >= 3 THEN args[3] ELSE IntV(CreationDelaySeconds)]

\* Mutant: ACTIVE is only accepted once the resource has been seen before.
CreationCheckVerdict_IgnoresActive(r) ==
    IF r.ok
    THEN IF r.memory.status = "ACTIVE" /\ obs.sawStatus THEN "return" ELSE "continue"
    ELSE "continue"

\* Mutant: a "not found" answer aborts the creation loop.
CreationCheckVerdict_NotFoundRaises(r) ==
    IF r.ok
    THEN IF r.memory.status = "ACTIVE" THEN "return" ELSE "continue"
    ELSE IF SaysNotFound(r.exc) THEN "raise" ELSE "continue"

\* The body of one iteration of the creation loop after get_memory answered r:
\* "return" the details, "continue" with the next attempt, or "raise" r's error.
CreationCheckVerdict(r) ==
    IF r.ok
    THEN IF r.memory.status = "ACTIVE" THEN "return" ELSE "continue"
    ELSE IF SaysNotFound(r.exc) THEN "continue" ELSE "continue"

\* Mutant: the loop body runs once before max_attempts is looked at.
WaitCreationBegin_ChecksAtLeastOnce(args, stk) ==
    LET b == BindWaitCreation(args) IN
    /\ memory_id' = b.memory_id
    /\ max_attempts' = b.max_attempts
    /\ delay_seconds' = b.delay_seconds
    /\ obs' = NoObs
    /\ IF b.max_attempts.t # "int"
       THEN attempt' = 0 /\ RaiseTo(stk, ConcatTypeError)
       ELSE /\ attempt' = 1
            /\ pc' = "wait_creation_check"
            /\ stack' = stk
            /\ UNCHANGED <<ret, exc>>

\* Entry of the function up to the first iteration of its loop.
WaitCreationBegin(args, stk) ==
    LET b == BindWaitCreation(args) IN
    /\ memory_id' = b.memory_id
    /\ max_attempts' = b.max_attempts
    /\ delay_seconds' = b.delay_seconds
    /\ obs' = NoObs
    /\ IF b.max_attempts.t # "int"
       THEN attempt' = 0 /\ RaiseTo(stk, ConcatTypeError)
       ELSE IF b.max_attempts.n < 1
       THEN attempt' = 0 /\ RaiseTo(stk, CreationTimeoutError(b.memory_id))
       ELSE /\ attempt' = 1
            /\ pc' = "wait_creation_check"
            /\ stack' = stk
            /\ UNCHANGED <<ret, exc>>

\* The end of an iteration that did not return: next attempt, or the timeout.
WaitCreationNext ==
    IF attempt < max_attempts.n
    THEN attempt' = attempt + 1 /\ pc' = "wait_creation_check"
         /\ UNCHANGED <<stack, ret, exc>>
    ELSE attempt' = attempt /\ RaiseTo(stack, CreationTimeoutError(memory_id))

WaitCreationCheck ==
    /\ pc = "wait_creation_check"
    /\ \E r \in GetMemoryResponses(memory_id) :
         /\ Called([CallRec("get_memory") EXCEPT !.memoryId = memory_id])
         /\ obs' = Observe(obs, r, IsActiveResponse(r))
         /\ CASE CreationCheckVerdict(r) = "return" ->
                   attempt' = attempt /\ ReturnTo(stack, r.memory)
              [] CreationCheckVerdict(r) = "raise" ->
                   attempt' = attempt /\ RaiseTo(stack, r.exc)
              [] OTHER ->
                   IF SleepsAfter(attempt, max_attempts.n)
                   THEN attempt' = attempt /\ pc' = "wait_creation_sleep"
                        /\ UNCHANGED <<stack, ret, exc>>
                   ELSE WaitCreationNext
    /\ UNCHANGED <<agentcore_memory_id, ssm_param, memories, op,
                   memory_id, max_attempts, delay_seconds, request, response, created>>
    /\ UNCHANGED stream

WaitCreationSleep ==
    /\ pc = "wait_creation_sleep"
    /\ Called([CallRec("sleep") EXCEPT !.n = delay_seconds.n])
    /\ obs' = Slept(obs, delay_seconds.n)
    /\ WaitCreationNext
    /\ UNCHANGED <<agentcore_memory_id, ssm_param, memories, op,
                   memory_id, max_attempts, delay_seconds, request, response, created>>
    /\ UNCHANGED stream

\* ------------------------------------------------------------------------
\* _wait_for_memory_provider_deletion(agentcore_control_client, memory_id,
\*                                    max_attempts=20, delay_seconds=10)
\* ------------------------------------------------------------------------
BindWaitDeletion(args) ==
    [client |-> args[1],
     memory_id |-> args[2],
     max_attempts |-> IF Len(args) >= 3 THEN args[3] ELSE IntV(DefaultMaxAttempts),
     delay_seconds |-> IF Len(args) >= 4 THEN args[4] ELSE IntV(DeletionDelaySeconds)]

\* Mutant: a resource that is retrievable but FAILED counts as deleted.
DeletionCheckVerdict_FailedIsGone(r) ==
    IF r.ok
    THEN IF r.memory.status = "FAILED" THEN "return" ELSE "continue"
    ELSE IF SaysNotFound(r.exc) THEN "return" ELSE "continue"

\* Mutant: an unexpected error aborts the deletion loop.
DeletionCheckVerdict_OtherRaises(r) ==
    IF r.ok
    THEN "continue"
    ELSE IF SaysNotFound(r.exc) THEN "return" ELSE "raise"

DeletionCheckVerdict(r) ==
    IF r.ok
    THEN "continue"
    ELSE IF SaysNotFound(r.exc) THEN "return" ELSE "continue"

WaitDeletionBegin(args, stk) ==
    LET b == BindWaitDeletion(args) IN
    /\ memory_id' = b.memory_id
    /\ max_attempts' = b.max_attempts
    /\ delay_seconds' = b.delay_seconds
    /\ obs' = NoObs
    /\ IF b.max_attempts.t # "int"
       THEN attempt' = 0 /\ RaiseTo(stk, ConcatTypeError)
       ELSE IF b.max_attempts.n < 1
       THEN attempt' = 0 /\ RaiseTo(stk, DeletionTimeoutError(b.memory_id))
       ELSE /\ attempt' = 1
            /\ pc' = "wait_deletion_check"
            /\ stack' = stk
            /\ UNCHANGED <<ret, exc>>

WaitDeletionNext ==
    IF attempt < max_attempts.n
    THEN attempt' = attempt + 1 /\ pc' = "wait_deletion_check"
         /\ UNCHANGED <<stack, ret, exc>>
    ELSE attempt' = attempt /\ RaiseTo(stack, DeletionTimeoutError(memory_id))

WaitDeletionCheck ==
    /\ pc = "wait_deletion_check"
    /\ \E r \in GetMemoryResponses(memory_id) :
         /\ Called([CallRec("get_memory") EXCEPT !.memoryId = memory_id])
         /\ obs' = Observe(obs, r, IsNotFoundResponse(r))
         /\ CASE DeletionCheckVerdict(r) = "return" ->
                   attempt' = attempt /\ ReturnTo(stack, TrueV)
              [] DeletionCheckVerdict(r) = "raise" ->
                   attempt' = attempt /\ RaiseTo(stack, r.exc)
              [] OTHER ->
                   IF SleepsAfter(attempt, max_attempts.n)
                   THEN attempt' = attempt /\ pc' = "wait_deletion_sleep"
                        /\ UNCHANGED <<stack, ret, exc>>
                   ELSE WaitDeletionNext
    /\ UNCHANGED <<agentcore_memory_id, ssm_param, memories, op,
                   memory_id, max_attempts, delay_seconds, request, response, created>>
    /\ UNCHANGED stream

WaitDeletionSleep ==
    /\ pc = "wait_deletion_sleep"
    /\ Called([CallRec("sleep") EXCEPT !.n = delay_seconds.n])
    /\ obs' = Slept(obs, delay_seconds.n)
    /\ WaitDeletionNext
    /\ UNCHANGED <<agentcore_memory_id, ssm_param, memories, op,
                   memory_id, max_attempts, delay_seconds, request, response, created>>
    /\ UNCHANGED stream

\* ------------------------------------------------------------------------
\* create_memory_provider(request)
\* ------------------------------------------------------------------------
waitVars == <<memory_id, max_attempts, delay_seconds, attempt, obs>>

MEMORY_RETENTION_DAYS == 30
TestRetentionDays == 7

\* A CreateAgentCoreMemoryProviderRequest: environment and retention_days.
CreateRequests ==
    [environment : {ENVIRONMENT}, retention_days : {TestRetentionDays, MEMORY_RETENTION_DAYS}]

\* The request create_memory_provider runs with: its caller's, or the one
\* _get_agentcore_memory_id builds from the module's defaults.
CreateRequest ==
    IF op = "create_memory_provider" THEN request
    ELSE [environment |-> ENVIRONMENT, retention_days |-> MEMORY_RETENTION_DAYS]

AlreadyExistsError(name) ==
    Exc("ClientError", <<"ConflictException", ":", "Memory", "with", "name">>
                        \o name \o <<"already", "exists">>)
ProvisioningFailedError(name) ==
    Exc("Exception", <<"Failed", "to", "create", "memory">> \o name)

\* `s.split(sep)[0]`
SplitFirst(s, sep) ==
    LET hits == {i \in 1..Len(s) : s[i] = sep}
    IN  IF hits = {} THEN s
        ELSE SubSeq(s, 1, (CHOOSE i \in hits : \A j \in hits : i <= j) - 1)

SuffixOrder == <<"a1", "b2">>

\* Memories of other environments that the account holds.
ForeignMemory(sfx) ==
    [id |-> BackendMemoryId(<<"Other", "_", "Env">>, sfx), status |-> "ACTIVE"]

\* agentcore_control_client.list_memories()['memories']: the account's
\* memories, this environment's among those of others.
ListMemories ==
    LET present(sfx) == memories[sfx] # "ABSENT"
        kept == SelectSeq(SuffixOrder, present)
    IN  <<ForeignMemory("c3")>>
        \o [i \in 1..Len(kept) |-> [id |-> MemId(kept[i]), status |-> memories[kept[i]]]]
        \o <<ForeignMemory("d4")>>

\* `for mem in memories: if mem['id'].split('-')[0] == memory_name: ...`
RECURSIVE AdoptExisting(_, _)
AdoptExisting(mems, current) ==
    IF mems = << >> THEN current
    ELSE AdoptExisting(Tail(mems),
                       IF SplitFirst(Head(mems).id, "-") = MemoryName
                       THEN Head(mems).id ELSE current)

\* Mutant: every failure of the try block is handled as "already exists".
CreateMemoryProviderExcept_AlwaysAdopts(e) ==
    /\ UNCHANGED <<ssm_param, memories>>
    /\ Called([CallRec("list_memories") EXCEPT !.answer = Answered(ListMemories)])
    /\ agentcore_memory_id' = AdoptExisting(ListMemories, agentcore_memory_id)
    /\ ReturnTo(stack, IdV(agentcore_memory_id'))

\* `except Exception as create_error:` of create_memory_provider
CreateMemoryProviderExcept(e) ==
    IF Contains(<<"already", "exists">>, e.msg)
    THEN /\ UNCHANGED <<ssm_param, memories>>
         /\ \/ \E le \in TransientErrors :
                 /\ Called([CallRec("list_memories") EXCEPT !.answer = Failed(le)])
                 /\ RaiseTo(stack, le)
                 /\ UNCHANGED agentcore_memory_id
            \/ /\ Called([CallRec("list_memories") EXCEPT !.answer = Answered(ListMemories)])
               /\ agentcore_memory_id' = AdoptExisting(ListMemories, agentcore_memory_id)
               /\ ReturnTo(stack, IdV(agentcore_memory_id'))
    ELSE /\ RaiseTo(stack, e)
         /\ UNCHANGED <<agentcore_memory_id, ssm_param, memories, calls, log>>

\* The create call and the wait that follows it.  The wait function takes
\* (memory_id, max_attempts, delay_seconds); called here with
\* (agentcore_control_client, memory_id) it binds the id to max_attempts.
CreateMemoryProviderCreate ==
    /\ pc = "create_memory"
    /\ LET call == [CallRec("create_memory") EXCEPT !.value = MemoryName,
                                                    !.n = CreateRequest.retention_days]
       IN
       \/ /\ \E sfx \in Suffixes : memories[sfx] # "ABSENT"
          /\ Called([call EXCEPT !.answer = Failed(AlreadyExistsError(MemoryName))])
          /\ exc' = AlreadyExistsError(MemoryName)
          /\ pc' = "create_memory_after"
          /\ UNCHANGED <<memories, created, stack, ret, waitVars>>
       \/ /\ \E e \in TransientErrors :
               /\ Called([call EXCEPT !.answer = Failed(e)])
               /\ exc' = e
          /\ pc' = "create_memory_after"
          /\ UNCHANGED <<memories, created, stack, ret, waitVars>>
       \/ /\ \A sfx \in Suffixes : memories[sfx] = "ABSENT"
          /\ \E sfx \in Suffixes :
               /\ Called([call EXCEPT !.answer =
                             Answered(<<[id |-> MemId(sfx), status |-> "CREATING"]>>)])
               /\ memories' = [memories EXCEPT ![sfx] = "CREATING"]
               /\ created' = MemId(sfx)
               /\ WaitCreationBegin(<<ClientV, StrV(MemId(sfx))>>,
                                    <<"create_memory_after">> \o stack)
    /\ UNCHANGED <<agentcore_memory_id, ssm_param, op, request, response>>
    /\ UNCHANGED stream

\* After the wait: confirm ACTIVE, persist the id, cache it; any exception of
\* the try block lands in the except clause.
CreateMemoryProviderAfter ==
    /\ pc = "create_memory_after"
    /\ IF exc # NoExc
       THEN CreateMemoryProviderExcept(exc)
       ELSE \E r \in GetMemoryResponses(StrV(created)) :
              IF ~r.ok
              THEN CreateMemoryProviderExcept(r.exc)
              ELSE IF r.memory.status # "ACTIVE"
              THEN CreateMemoryProviderExcept(ProvisioningFailedError(MemoryName))
              ELSE /\ calls' = [calls EXCEPT !["get_memory"] = @ + 1,
                                             !["put_parameter"] = @ + 1]
                   /\ log' = log \o <<[CallRec("get_memory") EXCEPT !.memoryId = StrV(created)],
                                      [CallRec("put_parameter") EXCEPT !.value = created]>>
                   /\ ssm_param' = created
                   /\ agentcore_memory_id' = created
                   /\ ReturnTo(stack, IdV(created))
                   /\ UNCHANGED memories
    /\ UNCHANGED <<op, request, response, created, waitVars>>
    /\ UNCHANGED stream

\* ------------------------------------------------------------------------
\* _get_agentcore_memory_id()
\* ------------------------------------------------------------------------
ParamName == <<"/">> \o ENVIRONMENT \o <<"/", "agentcore_memory_id">>

SsmErrors == {Exc("ClientError", <<"InternalServerError", ":", "SSM", "unavailable">>)}

\* ssm_client.get_parameters_by_path(Path=param_name)['Parameters']
GetParametersByPath ==
    IF ssm_param = None THEN << >> ELSE <<[Name |-> ParamName, Value |-> ssm_param]>>

\* Mutant: the configuration store is consulted whatever the cache holds.
ResolveBegin_AlwaysLooksUp(stk) ==
    pc' = "resolve_lookup" /\ stack' = stk /\ UNCHANGED <<ret, exc>>

\* `if not agentcore_memory_id:` ... `return agentcore_memory_id`
ResolveBegin(stk) ==
    IF Truthy(agentcore_memory_id)
    THEN ReturnTo(stk, IdV(agentcore_memory_id))
    ELSE pc' = "resolve_lookup" /\ stack' = stk /\ UNCHANGED <<ret, exc>>

\* Mutant: the id found in the store is returned but not cached.
ResolveLookup_NeverCaches ==
    /\ pc = "resolve_lookup"
    /\ LET call == [CallRec("get_parameters_by_path") EXCEPT !.value = ParamName] IN
       \/ \E e \in SsmErrors :
            /\ Called([call EXCEPT !.answer = Failed(e)])
            /\ RaiseTo(stack, e)
            /\ UNCHANGED agentcore_memory_id
       \/ LET parameters == GetParametersByPath IN
          /\ Called([call EXCEPT !.answer = Answered(parameters)])
          /\ IF Len(parameters) > 0
             THEN /\ UNCHANGED agentcore_memory_id
                  /\ ReturnTo(stack, IdV(parameters[1].Value))
             ELSE /\ pc' = "create_memory"
                  /\ stack' = <<"resolve_created">> \o stack
                  /\ UNCHANGED <<agentcore_memory_id, ret, exc>>
    /\ UNCHANGED <<ssm_param, memories, op, request, response, created, waitVars>>
    /\ UNCHANGED stream

\* Mutant: a failed lookup is taken for an empty one.
ResolveLookup_SwallowsError ==
    /\ pc = "resolve_lookup"
    /\ LET call == [CallRec("get_parameters_by_path") EXCEPT !.value = ParamName] IN
       \/ \E e \in SsmErrors :
            /\ Called([call EXCEPT !.answer = Failed(e)])
            /\ pc' = "create_memory"
            /\ stack' = <<"resolve_created">> \o stack
            /\ UNCHANGED <<agentcore_memory_id, ret, exc>>
       \/ LET parameters == GetParametersByPath IN
          /\ Called([call EXCEPT !.answer = Answered(parameters)])
          /\ IF Len(parameters) > 0
             THEN /\ agentcore_memory_id' = parameters[1].Value
                  /\ ReturnTo(stack, IdV(parameters[1].Value))
             ELSE /\ pc' = "create_memory"
                  /\ stack' = <<"resolve_created">> \o stack
                  /\ UNCHANGED <<agentcore_memory_id, ret, exc>>
    /\ UNCHANGED <<ssm_param, memories, op, request, response, created, waitVars>>
    /\ UNCHANGED stream

\* Mutant: a failed lookup is tried a second time before it is re-raised.
ResolveLookup_RetriesOnce ==
    /\ pc = "resolve_lookup"
    /\ LET call == [CallRec("get_parameters_by_path") EXCEPT !.value = ParamName] IN
       \/ \E e \in SsmErrors :
            /\ Called([call EXCEPT !.answer = Failed(e)])
            /\ IF calls["get_parameters_by_path"] = 0
               THEN UNCHANGED <<pc, stack, ret, exc>>
               ELSE RaiseTo(stack, e)
            /\ UNCHANGED agentcore_memory_id
       \/ LET parameters == GetParametersByPath IN
          /\ Called([call EXCEPT !.answer = Answered(parameters)])
          /\ IF Len(parameters) > 0
             THEN /\ agentcore_memory_id' = parameters[1].Value
                  /\ ReturnTo(stack, IdV(parameters[1].Value))
             ELSE /\ pc' = "create_memory"
                  /\ stack' = <<"resolve_created">> \o stack
                  /\ UNCHANGED <<agentcore_memory_id, ret, exc>>
    /\ UNCHANGED <<ssm_param, memories, op, request, response, created, waitVars>>
    /\ UNCHANGED stream

\* The lookup in the configuration store: a found id is cached and returned,
\* an empty answer leads to create_memory_provider, a failure is re-raised.
ResolveLookup ==
    /\ pc = "resolve_lookup"
    /\ LET call == [CallRec("get_parameters_by_path") EXCEPT !.value = ParamName] IN
       \/ \E e \in SsmErrors :
            /\ Called([call EXCEPT !.answer = Failed(e)])
            /\ RaiseTo(stack, e)
            /\ UNCHANGED agentcore_memory_id
       \/ LET parameters == GetParametersByPath IN
          /\ Called([call EXCEPT !.answer = Answered(parameters)])
          /\ IF Len(parameters) > 0
             THEN /\ agentcore_memory_id' = parameters[1].Value
                  /\ ReturnTo(stack, IdV(parameters[1].Value))
             ELSE /\ pc' = "create_memory"
                  /\ stack' = <<"resolve_created">> \o stack
                  /\ UNCHANGED <<agentcore_memory_id, ret, exc>>
    /\ UNCHANGED <<ssm_param, memories, op, request, response, created, waitVars>>
    /\ UNCHANGED stream

\* Mutant: the id create_memory_provider returned is taken without waiting.
ResolveCreated_SkipsWait ==
    /\ pc = "resolve_created"
    /\ IF exc # NoExc
       THEN RaiseTo(stack, exc) /\ UNCHANGED <<response, waitVars>>
       ELSE /\ response' = ret.id
            /\ pc' = "resolve_waited"
            /\ UNCHANGED <<stack, ret, exc, waitVars>>
    /\ UNCHANGED <<agentcore_memory_id, ssm_param, memories, op, request, created,
                   calls, log>>
    /\ UNCHANGED stream

\* create_memory_provider came back: wait for the resource it named.
ResolveCreated ==
    /\ pc = "resolve_created"
    /\ IF exc # NoExc
       THEN RaiseTo(stack, exc) /\ UNCHANGED <<response, waitVars>>
       ELSE /\ response' = ret.id
            /\ WaitCreationBegin(<<OptV(ret.id)>>, <<"resolve_waited">> \o stack)
    /\ UNCHANGED <<agentcore_memory_id, ssm_param, memories, op, request, created,
                   calls, log>>
    /\ UNCHANGED stream

\* Mutant: the id is cached and returned, the store is not written.
ResolveWaited_SkipsStore ==
    /\ pc = "resolve_waited"
    /\ IF exc # NoExc
       THEN RaiseTo(stack, exc) /\ UNCHANGED <<agentcore_memory_id, ssm_param, calls, log>>
       ELSE /\ agentcore_memory_id' = response
            /\ ReturnTo(stack, IdV(response))
            /\ UNCHANGED <<ssm_param, calls, log>>
    /\ UNCHANGED <<memories, op, request, response, created, waitVars>>
    /\ UNCHANGED stream

\* The wait came back: cache the id and write it to the configuration store
\* (Overwrite=True: whatever the entry held is replaced).
ResolveWaited ==
    /\ pc = "resolve_waited"
    /\ IF exc # NoExc
       THEN RaiseTo(stack, exc) /\ UNCHANGED <<agentcore_memory_id, ssm_param, calls, log>>
       ELSE /\ agentcore_memory_id' = response
            /\ LET call == [CallRec("put_parameter") EXCEPT !.value = response] IN
               \/ \E e \in SsmErrors :
                    /\ Called([call EXCEPT !.answer = Failed(e)])
                    /\ RaiseTo(stack, e)
                    /\ UNCHANGED ssm_param
               \/ /\ Called(call)
                  /\ ssm_param' = response
                  /\ ReturnTo(stack, IdV(response))
    /\ UNCHANGED <<memories, op, request, response, created, waitVars>>
    /\ UNCHANGED stream

\* ------------------------------------------------------------------------
\* Backend data plane
\* ------------------------------------------------------------------------
Users == {<<"u1">>}
SessionIds == {<<"s1">>, <<"s2">>}
Tokens == {<<"tok">>}
RequestLimit == 10
InitializationText == <<"Initializing", "new", "AgentCore", "memory", "session.">>

MsgActorNotFound == <<"ResourceNotFoundException", ":", "Actor", "not", "found">>
MsgThrottled == <<"ThrottlingException", ":", "Rate", "exceeded">>
ListSessionsErrors == {Exc("ClientError", MsgActorNotFound), Exc("ClientError", MsgThrottled)}
DataPlaneErrors == {Exc("ClientError", MsgThrottled)}

\* A session summary as the backend reports it.
SessionSummary(sid, actor, t) == [sessionId |-> sid, actorId |-> actor, createdAt |-> t]

\* The sessionSummaries lists the backend may report for an actor.
SessionLists(actor) ==
    LET S == {SessionSummary(sid, actor, t) : sid \in SessionIds, t \in (EpochTime + 1)..MaxTime}
    IN  {<< >>} \cup {<<a>> : a \in S}
        \cup {p \in S \X S : p[1].sessionId # p[2].sessionId}

\* An event as list_events reports it.
Event(eid, mem, actor, sid) ==
    [eventId |-> eid, memoryId |-> mem, actorId |-> actor, sessionId |-> sid]

EventLists(mem, actor, sid) ==
    LET e1 == Event(<<"e1">>, mem, actor, sid)
        e2 == Event(<<"e2">>, mem, actor, sid)
    IN  {<< >>, <<e1>>, <<e1, e2>>, <<e2, e1>>}

\* The nextToken of a list_events response: absent on the last page.
PageTokens == {None} \cup Tokens

\* ------------------------------------------------------------------------
\* Python dict access
\* ------------------------------------------------------------------------
KeyError(k) == Exc("KeyError", <<k>>)
UnboundLocalError(name) == Exc("UnboundLocalError", <<name>>)

\* `del d[k]` for a key d has
Del(d, k) == [x \in (DOMAIN d) \ {k} |-> d[x]]

\* ------------------------------------------------------------------------
\* update_memory_provider(request)
\* ------------------------------------------------------------------------
\* A Python list as a value: `[]` is not None.
ListArgV == [t |-> "list", s |-> None, n |-> 0]
NewDescription == <<"Updated", "description">>
NewExpiryDays == 14

\* The optional fields of an UpdateAgentCoreMemoryProviderRequest are None
\* unless supplied.
UpdateRequests ==
    [memory_id : MemoryIds,
     description : {NoneV, StrV(NewDescription)},
     event_expiry_duration : {NoneV, IntV(NewExpiryDays)},
     memory_strategies : {NoneV, ListArgV}]

\* `update_params = {'id': request.memory_id}` plus each field that
\* `is not None`.
UpdateParams(req) ==
    LET supplied == {"id"}
            \cup (IF req.description # NoneV THEN {"description"} ELSE {})
            \cup (IF req.event_expiry_duration # NoneV THEN {"eventExpiryDuration"} ELSE {})
            \cup (IF req.memory_strategies # NoneV THEN {"memoryStrategies"} ELSE {})
    IN  [k \in supplied |->
           CASE k = "id" -> StrV(req.memory_id)
             [] k = "description" -> req.description
             [] k = "eventExpiryDuration" -> req.event_expiry_duration
             [] k = "memoryStrategies" -> req.memory_strategies]

\* The function assigns agentcore_control_client (line 237) and declares it
\* neither global nor nonlocal, so the name is local to the function and has
\* no value when line 236 reads it.
ControlClientBoundOnEntry == FALSE

\* `'memoryId': request.memory_id, 'name': updated_memory.get('name'), ...`
UpdateResult(req, updated) ==
    [RetBase EXCEPT !.kind = "update_result", !.id = req.memory_id]

\* `if not agentcore_control_client:` and the try block behind it.
UpdateMemoryProvider ==
    /\ pc = "update_memory_provider"
    /\ IF ~ControlClientBoundOnEntry
       THEN /\ RaiseTo(stack, UnboundLocalError("agentcore_control_client"))
            /\ UNCHANGED <<calls, log>>
       ELSE LET get == [CallRec("get_memory") EXCEPT !.memoryId = StrV(request.memory_id)]
                update_params == UpdateParams(request)
                update == [CallRec("update_memory") EXCEPT !.params = update_params]
            IN  \E current_memory \in GetMemoryResponses(StrV(request.memory_id)) :
                  IF ~current_memory.ok
                  THEN /\ Called([get EXCEPT !.answer = Failed(current_memory.exc)])
                       /\ RaiseTo(stack, current_memory.exc)
                  ELSE IF Cardinality(DOMAIN update_params) > 1
                  THEN \E updated_memory \in GetMemoryResponses(StrV(request.memory_id)) :
                         /\ calls' = [calls EXCEPT !["get_memory"] = @ + 2,
                                                   !["update_memory"] = @ + 1]
                         /\ log' = log \o <<get, update, get>>
                         /\ IF updated_memory.ok
                            THEN ReturnTo(stack, UpdateResult(request, updated_memory.memory))
                            ELSE RaiseTo(stack, updated_memory.exc)
                  ELSE /\ Called(get)
                       /\ ReturnTo(stack, current_memory.memory)
    /\ UNCHANGED <<agentcore_memory_id, ssm_param, memories, op, request, response,
                   created, waitVars>>
    /\ UNCHANGED stream

\* ------------------------------------------------------------------------
\* delete_memory_provider(request)
\* ------------------------------------------------------------------------
DeleteRequests == [memory_id : MemoryIds]

\* What delete_memory(memoryId=mid) can answer: the resource starts to go
\* away, it is not there, or the service fails.
DeleteMemoryResponses(mid) ==
    {Response(TRUE, MemoryDetails(MemId(sfx), "DELETING"), NoExc) :
        sfx \in {x \in Suffixes : mid = MemId(x) /\ memories[x] \in {"ACTIVE", "FAILED"}}}
    \cup {Response(FALSE, RetBase, e) :
            e \in (IF \A x \in Suffixes : mid = MemId(x) => memories[x] = "ABSENT"
                   THEN {Exc("ClientError", MsgMemoryNotFound)} ELSE {})}
    \cup {Response(FALSE, RetBase, e) : e \in TransientErrors}

\* As in update_memory_provider, line 204 makes agentcore_control_client a
\* local name that has no value when line 203 reads it.
DeleteClientBoundOnEntry == FALSE

\* `if not agentcore_control_client:` and the try block behind it.
DeleteMemoryProvider ==
    /\ pc = "delete_memory_provider"
    /\ IF ~DeleteClientBoundOnEntry
       THEN /\ RaiseTo(stack, UnboundLocalError("agentcore_control_client"))
            /\ UNCHANGED <<memories, calls, log>>
       ELSE LET call == [CallRec("delete_memory") EXCEPT !.memoryId = StrV(request.memory_id)]
            IN  \E r \in DeleteMemoryResponses(request.memory_id) :
                  IF r.ok
                  THEN /\ Called(call)
                       /\ memories' = [x \in Suffixes |->
                                         IF request.memory_id = MemId(x)
                                         THEN "DELETING" ELSE memories[x]]
                       /\ ReturnTo(stack, IdV(request.memory_id))
                  ELSE /\ Called([call EXCEPT !.answer = Failed(r.exc)])
                       /\ RaiseTo(stack, r.exc)
                       /\ UNCHANGED memories
    /\ UNCHANGED <<agentcore_memory_id, ssm_param, op, request, response,
                   created, waitVars>>
    /\ UNCHANGED stream

\* ------------------------------------------------------------------------
\* initialize_session(actor_id)
\* ------------------------------------------------------------------------
\* Mutant: the message takes the role as spelled in the event payload.
Message_PayloadRole(role, text) ==
    [role |-> "ASSISTANT", content |-> <<[type |-> "text", text |-> text]>>]

Message(role, text) == [role |-> role, content |-> <<[type |-> "text", text |-> text]>>]
SessionContext(sid, user, msgs) ==
    [RetBase EXCEPT !.kind = "SessionContext", !.id = sid, !.user = user, !.messages = msgs]

CreateEventCall(actor, text) ==
    [CallRec("create_event") EXCEPT !.memoryId = OptV(agentcore_memory_id),
                                    !.actorId = actor, !.value = text]

InitializeSession ==
    /\ pc = "initialize_session"
    /\ LET actor_id == request.user_id
           call == CreateEventCall(actor_id, InitializationText)
       IN  \/ \E e \in DataPlaneErrors :
                /\ Called([call EXCEPT !.answer = Failed(e)])
                /\ RaiseTo(stack, e)
                /\ UNCHANGED stream
           \/ \E sid \in SessionIds :
                LET event == Event(<<"e1">>, agentcore_memory_id, actor_id, sid) IN
                /\ stream < MaxEvents
                /\ stream' = stream + 1
                /\ Called([call EXCEPT !.answer = Answered(<<event>>)])
                /\ ReturnTo(stack, SessionContext(event.sessionId, event.actorId,
                                                  <<Message("assistant", call.value)>>))
    /\ UNCHANGED <<agentcore_memory_id, ssm_param, memories, op, request, response,
                   created, waitVars>>

\* ------------------------------------------------------------------------
\* get_memories(request)
\* ------------------------------------------------------------------------
ListV(events) == [RetBase EXCEPT !.kind = "list", !.events = events]

\* Mutant: the events keep their actorId.
StripEvents_KeepsActor(events) ==
    [i \in 1..Len(events) |-> Del(events[i], "memoryId")]

\* `del evt['memoryId']; del evt['actorId']; context.append(evt)` for each event
StripEvents(events) ==
    [i \in 1..Len(events) |-> Del(Del(events[i], "memoryId"), "actorId")]

\* The arguments of list_events: nextToken only when the request has one.
ListEventsCall(req) ==
    [CallRec("list_events") EXCEPT !.memoryId = OptV(agentcore_memory_id),
                                   !.sessionId = req.session_id,
                                   !.actorId = req.user_id,
                                   !.n = req.limit,
                                   !.hasToken = Truthy(req.next_token),
                                   !.nextToken = req.next_token]

\* What list_events can answer: botocore rejects a memoryId that is not a
\* string; otherwise a failure of the service or one page of events, with a
\* nextToken when more pages follow.
ListEventsAnswers(call) ==
    IF call.memoryId.t # "str" THEN {Failed(ParamValidationError)}
    ELSE {Failed(e) : e \in DataPlaneErrors}
         \cup {AnsweredPage(events, tok) :
                  events \in EventLists(call.memoryId.s, call.actorId, call.sessionId),
                  tok \in PageTokens}

\* `events = agentcore_client.list_events(**args)['events']` ... `return context`
GetMemories ==
    /\ pc = "get_memories"
    /\ LET call == ListEventsCall(request) IN
       \E answer \in ListEventsAnswers(call) :
          /\ Called([call EXCEPT !.answer = answer])
          /\ IF answer.ok
             THEN ReturnTo(stack, ListV(StripEvents(answer.items)))
             ELSE RaiseTo(stack, answer.exc)
    /\ UNCHANGED <<agentcore_memory_id, ssm_param, memories, op, request, response,
                   created, waitVars>>
    /\ UNCHANGED stream

\* ------------------------------------------------------------------------
\* upsert_session_context(request)
\* ------------------------------------------------------------------------
\* Mutant: the upsert appends an event.
UpsertSessionContextBody_Appends ==
    /\ calls' = [NoCalls EXCEPT !["create_event"] = 1]
    /\ stream' = IF stream < MaxEvents THEN stream + 1 ELSE stream
    /\ UNCHANGED <<agentcore_memory_id, ssm_param, memories>>
    /\ ReturnTo(<< >>, RetBase)

\* `pass`: the method returns None.
UpsertSessionContextBody ==
    /\ calls' = NoCalls
    /\ UNCHANGED <<agentcore_memory_id, ssm_param, memories, stream>>
    /\ ReturnTo(<< >>, RetBase)

\* ------------------------------------------------------------------------
\* create_memory(request)
\* ------------------------------------------------------------------------
\* A message of the conversation, its content plain text.
ConversationMessage(role, text) == [role |-> role, content |-> text]
UserTurn == ConversationMessage("user", <<"hello">>)
AssistantTurn == ConversationMessage("assistant", <<"hi", "there">>)
Conversations ==
    {<< >>, <<UserTurn>>, <<UserTurn, AssistantTurn>>, <<AssistantTurn, UserTurn>>}

\* A CreateMemoryRequest: session_id, user_id and session_context.messages.
CreateMemoryRequests ==
    [session_id : SessionIds, user_id : Users, messages : Conversations]

IndexError == Exc("IndexError", <<"list", "index", "out", "of", "range">>)

\* One turn of a create_event payload.
ConversationalTurn(msg) ==
    [conversational |-> [content |-> [text |-> msg.content], role |-> msg.role]]

\* Mutant: the append carries an idempotency key.
CreateMemoryEventCall_WithClientToken(req, newest_msg) ==
    [CallRec("create_event") EXCEPT
        !.memoryId = OptV(agentcore_memory_id),
        !.sessionId = req.session_id,
        !.actorId = req.user_id,
        !.value = newest_msg.content,
        !.params = [k \in {"memoryId", "sessionId", "actorId", "payload", "clientToken"} |->
                      CASE k = "memoryId" -> OptV(agentcore_memory_id)
                        [] k = "sessionId" -> StrV(req.session_id)
                        [] k = "actorId" -> StrV(req.user_id)
                        [] k = "clientToken" -> StrV(req.session_id)
                        [] k = "payload" -> <<ConversationalTurn(newest_msg)>>]]

\* The keyword arguments of create_memory's create_event call.
CreateMemoryEventCall(req, newest_msg) ==
    [CallRec("create_event") EXCEPT
        !.memoryId = OptV(agentcore_memory_id),
        !.sessionId = req.session_id,
        !.actorId = req.user_id,
        !.value = newest_msg.content,
        !.params = [k \in {"memoryId", "sessionId", "actorId", "payload"} |->
                      CASE k = "memoryId" -> OptV(agentcore_memory_id)
                        [] k = "sessionId" -> StrV(req.session_id)
                        [] k = "actorId" -> StrV(req.user_id)
                        [] k = "payload" -> <<ConversationalTurn(newest_msg)>>]]

\* The event the backend acknowledges: the payload as it was sent.
AppendedEvent(call, eid) ==
    [eventId |-> eid, memoryId |-> call.memoryId.s, actorId |-> call.actorId,
     sessionId |-> call.sessionId, payload |-> call.params["payload"]]

\* What create_event can answer: botocore rejects a memoryId that is not a
\* string; otherwise the service fails or appends the event.
CreateEventAnswers(call) ==
    IF call.memoryId.t # "str" THEN {Failed(ParamValidationError)}
    ELSE {Failed(e) : e \in DataPlaneErrors}
         \cup (IF stream < MaxEvents
               THEN {Answered(<<AppendedEvent(call, <<"e1">>)>>)} ELSE {})

MemoryV(role, text) ==
    [RetBase EXCEPT !.kind = "Memory", !.messages = <<ConversationMessage(role, text)>>]
MemoryResult(ok, memory, e) == [ok |-> ok, memory |-> memory, exc |-> e]

\* `Memory(role=response['payload'][0]['conversational']['role'],
\*         content=response['payload'][0]['content']['text'])`
MemoryFromEvent(event) ==
    LET turn == event.payload[1] IN
    IF "conversational" \notin DOMAIN turn
    THEN MemoryResult(FALSE, RetBase, KeyError("conversational"))
    ELSE IF "role" \notin DOMAIN turn.conversational
    THEN MemoryResult(FALSE, RetBase, KeyError("role"))
    ELSE IF "content" \notin DOMAIN turn
    THEN MemoryResult(FALSE, RetBase, KeyError("content"))
    ELSE IF "text" \notin DOMAIN turn.content
    THEN MemoryResult(FALSE, RetBase, KeyError("text"))
    ELSE MemoryResult(TRUE, MemoryV(turn.conversational.role, turn.content.text), NoExc)

CreateMemory ==
    /\ pc = "append_memory"
    /\ IF request.messages = << >>
       THEN /\ RaiseTo(stack, IndexError)
            /\ UNCHANGED <<calls, log, stream>>
       ELSE LET newest_msg == request.messages[Len(request.messages)]
                call == CreateMemoryEventCall(request, newest_msg)
            IN  \E answer \in CreateEventAnswers(call) :
                  /\ Called([call EXCEPT !.answer = answer])
                  /\ stream' = IF answer.ok THEN stream + 1 ELSE stream
                  /\ IF ~answer.ok
                     THEN RaiseTo(stack, answer.exc)
                     ELSE LET m == MemoryFromEvent(answer.items[1]) IN
                          IF m.ok THEN ReturnTo(stack, m.memory)
                          ELSE RaiseTo(stack, m.exc)
    /\ UNCHANGED <<agentcore_memory_id, ssm_param, memories, op, request, response,
                   created, waitVars>>

\* ------------------------------------------------------------------------
\* get_session_context(request)
\* ------------------------------------------------------------------------
\* The request objects (their classes live in core/models/memory_models.py):
\* user_id, session_id and next_token are read by get_session_context, limit
\* by get_memories, which receives the same object.
Requests ==
    [user_id : Users, session_id : {None} \cup SessionIds,
     next_token : {None} \cup Tokens, limit : {RequestLimit}]

GetSessionContextResponse(results) ==
    [RetBase EXCEPT !.kind = "GetSessionContextResponse", !.events = results]

\* The key read from the winning session summary.
SessionIdKey == "sesssionId"

\* The scan for the most recent session: id and time so far, or the exception
\* that ended it.
RECURSIVE ScanSessions(_, _)
ScanSessions(summaries, acc) ==
    IF summaries = << >> \/ acc.exc # NoExc THEN acc
    ELSE LET session == Head(summaries) IN
         IF session.createdAt > acc.time
         THEN IF SessionIdKey \in DOMAIN session
              THEN ScanSessions(Tail(summaries),
                                [id |-> session[SessionIdKey], time |-> session.createdAt,
                                 exc |-> NoExc])
              ELSE [acc EXCEPT !.exc = KeyError(SessionIdKey)]
         ELSE ScanSessions(Tail(summaries), acc)

MostRecentSession(summaries) ==
    ScanSessions(summaries, [id |-> None, time |-> EpochTime, exc |-> NoExc])

\* Mutant: no listing error starts a new session.
ListSessionsFailed_NeverInitializes(e) == "fallthrough"

\* The inner `except` around list_sessions: "initialize" a session, or fall
\* through to the code after it ("raise" would re-raise the error).
ListSessionsFailed(e) ==
    IF Contains(<<"ResourceNotFoundException">>, e.msg) THEN "initialize" ELSE "fallthrough"

\* Mutant: the supplied session id is ignored and the session is resolved anyway.
GetSessionContextDispatch_AlwaysResolves(req, stk) ==
    pc' = "list_sessions" /\ stack' = stk

\* `if not request.session_id:` resolve the session, else straight to the events
GetSessionContextDispatch(req, stk) ==
    IF Truthy(req.session_id)
    THEN pc' = "get_memories" /\ stack' = <<"get_session_context_return">> \o stk
    ELSE pc' = "list_sessions" /\ stack' = stk

CallGetSessionContext ==
    /\ pc = "idle"
    /\ op' = "get_session_context"
    /\ calls' = NoCalls
    /\ \E req \in Requests :
         /\ request' = req
         /\ log' = Invocation("get_session_context", req)
         /\ IF Truthy(agentcore_memory_id)
            THEN GetSessionContextDispatch(req, << >>) /\ UNCHANGED <<ret, exc>>
            ELSE ResolveBegin(<<"get_session_context_resolved">>)
    /\ UNCHANGED <<agentcore_memory_id, ssm_param, memories, response, created, waitVars>>
    /\ UNCHANGED stream

\* `agentcore_memory_id = cls._get_agentcore_memory_id()`
GetSessionContextResolved ==
    /\ pc = "get_session_context_resolved"
    /\ IF exc # NoExc
       THEN RaiseTo(stack, exc) /\ UNCHANGED agentcore_memory_id
       ELSE /\ agentcore_memory_id' = ret.id
            /\ GetSessionContextDispatch(request, stack)
            /\ UNCHANGED <<ret, exc>>
    /\ UNCHANGED <<ssm_param, memories, op, request, response, created, calls, log,
                   waitVars>>
    /\ UNCHANGED stream

\* The arguments of list_sessions: nextToken only when the request has one.
ListSessionsCall(req) ==
    [CallRec("list_sessions") EXCEPT !.memoryId = OptV(agentcore_memory_id),
                                     !.actorId = req.user_id,
                                     !.hasToken = Truthy(req.next_token),
                                     !.nextToken = req.next_token]

GetSessionContextListSessions ==
    /\ pc = "list_sessions"
    /\ \/ \E e \in ListSessionsErrors :
            /\ Called([ListSessionsCall(request) EXCEPT !.answer = Failed(e)])
            /\ CASE ListSessionsFailed(e) = "initialize" ->
                      pc' = "initialize_session" /\ UNCHANGED <<stack, ret, exc>>
                 [] ListSessionsFailed(e) = "raise" ->
                      RaiseTo(stack, e)
                 [] OTHER ->
                      RaiseTo(stack, UnboundLocalError("response"))
            /\ UNCHANGED request
       \/ \E summaries \in SessionLists(request.user_id) :
            /\ Called([ListSessionsCall(request) EXCEPT !.answer = Answered(summaries)])
            /\ IF Len(summaries) = 0
               THEN pc' = "initialize_session" /\ UNCHANGED <<stack, ret, exc, request>>
               ELSE LET scan == MostRecentSession(summaries) IN
                    IF scan.exc # NoExc
                    THEN RaiseTo(stack, scan.exc) /\ UNCHANGED request
                    ELSE /\ request' = [request EXCEPT !.session_id = scan.id]
                         /\ pc' = "get_memories"
                         /\ stack' = <<"get_session_context_return">> \o stack
                         /\ UNCHANGED <<ret, exc>>
    /\ UNCHANGED <<agentcore_memory_id, ssm_param, memories, op, response, created,
                   waitVars>>
    /\ UNCHANGED stream

\* `contexts = cls.get_memories(request); return GetSessionContextResponse(...)`
GetSessionContextReturn ==
    /\ pc = "get_session_context_return"
    /\ IF exc # NoExc
       THEN RaiseTo(stack, exc)
       ELSE ReturnTo(stack, GetSessionContextResponse(ret.events))
    /\ UNCHANGED <<agentcore_memory_id, ssm_param, memories, op, request, response,
                   created, calls, log, waitVars>>
    /\ UNCHANGED stream

\* ------------------------------------------------------------------------
\* Direct invocations of the client's operations
\* ------------------------------------------------------------------------
\* A GetMemoriesRequest names its session.
GetMemoriesRequests == {req \in Requests : Truthy(req.session_id)}

CallGetMemories ==
    /\ pc = "idle"
    /\ op' = "get_memories"
    /\ calls' = NoCalls
    /\ \E req \in GetMemoriesRequests :
         /\ request' = req
         /\ log' = Invocation("get_memories", req)
    /\ pc' = "get_memories"
    /\ stack' = << >>
    /\ UNCHANGED <<agentcore_memory_id, ssm_param, memories, ret, exc, response,
                   created, waitVars>>
    /\ UNCHANGED stream

\* _get_agentcore_memory_id(): the invocation records what the cache held.
CallGetAgentcoreMemoryId ==
    /\ pc = "idle"
    /\ op' = "_get_agentcore_memory_id"
    /\ calls' = NoCalls
    /\ log' = <<[CallRec("_get_agentcore_memory_id") EXCEPT
                   !.memoryId = OptV(agentcore_memory_id)]>>
    /\ ResolveBegin(<< >>)
    /\ UNCHANGED <<agentcore_memory_id, ssm_param, memories, request, response,
                   created, waitVars>>
    /\ UNCHANGED stream

\* create_memory_provider(request): the invocation records what the cache
\* and the configuration store held.
CallCreateMemoryProvider ==
    /\ pc = "idle"
    /\ op' = "create_memory_provider"
    /\ calls' = NoCalls
    /\ \E req \in CreateRequests :
         /\ request' = req
         /\ log' = <<[CallRec("create_memory_provider") EXCEPT
                        !.memoryId = OptV(agentcore_memory_id),
                        !.value = ssm_param,
                        !.n = req.retention_days]>>
    /\ pc' = "create_memory"
    /\ stack' = << >>
    /\ UNCHANGED <<agentcore_memory_id, ssm_param, memories, ret, exc, response,
                   created, waitVars>>
    /\ UNCHANGED stream

\* What the cache, the configuration store and the event stream hold when an
\* operation is invoked.
EntrySnapshot(name) ==
    [CallRec(name) EXCEPT !.memoryId = OptV(agentcore_memory_id),
                          !.value = ssm_param,
                          !.n = stream]

CallUpsertSessionContext ==
    /\ pc = "idle"
    /\ op' = "upsert_session_context"
    /\ \E req \in CreateMemoryRequests : request' = req
    /\ log' = <<EntrySnapshot("upsert_session_context")>>
    /\ UpsertSessionContextBody
    /\ UNCHANGED <<response, created, waitVars>>

CallCreateMemory ==
    /\ pc = "idle"
    /\ op' = "create_memory"
    /\ calls' = NoCalls
    /\ \E req \in CreateMemoryRequests : request' = req
    /\ log' = <<EntrySnapshot("create_memory")>>
    /\ pc' = "append_memory"
    /\ stack' = << >>
    /\ UNCHANGED <<agentcore_memory_id, ssm_param, memories, ret, exc, response,
                   created, waitVars, stream>>

CallDeleteMemoryProvider ==
    /\ pc = "idle"
    /\ op' = "delete_memory_provider"
    /\ calls' = NoCalls
    /\ \E req \in DeleteRequests :
         /\ request' = req
         /\ log' = <<[CallRec("delete_memory_provider") EXCEPT
                        !.memoryId = StrV(req.memory_id)]>>
    /\ pc' = "delete_memory_provider"
    /\ stack' = << >>
    /\ UNCHANGED <<agentcore_memory_id, ssm_param, memories, ret, exc, response,
                   created, waitVars>>
    /\ UNCHANGED stream

CallUpdateMemoryProvider ==
    /\ pc = "idle"
    /\ op' = "update_memory_provider"
    /\ calls' = NoCalls
    /\ \E req \in UpdateRequests :
         /\ request' = req
         /\ log' = <<[CallRec("update_memory_provider") EXCEPT
                        !.memoryId = StrV(req.memory_id), !.params = UpdateParams(req)]>>
    /\ pc' = "update_memory_provider"
    /\ stack' = << >>
    /\ UNCHANGED <<agentcore_memory_id, ssm_param, memories, ret, exc, response,
                   created, waitVars>>
    /\ UNCHANGED stream

\* ------------------------------------------------------------------------
\* Direct invocations of the wait functions
\* ------------------------------------------------------------------------
AttemptChoices == (0 - 1)..MaxAttempts

WaitCreationArgs ==
    {<<StrV(id)>> : id \in MemoryIds}
    \cup {<<StrV(id), IntV(n)>> : id \in MemoryIds, n \in AttemptChoices}
    \cup {<<StrV(id), IntV(n), IntV(TestDelaySeconds)>> : id \in MemoryIds, n \in AttemptChoices}
    \cup {<<ClientV, StrV(id)>> : id \in MemoryIds}

WaitDeletionArgs ==
    {<<ClientV, StrV(id)>> : id \in MemoryIds}
    \cup {<<ClientV, StrV(id), IntV(n)>> : id \in MemoryIds, n \in AttemptChoices}
    \cup {<<ClientV, StrV(id), IntV(n), IntV(TestDelaySeconds)>> :
             id \in MemoryIds, n \in AttemptChoices}

CallWaitCreation ==
    /\ pc = "idle"
    /\ op' = "_wait_for_memory_provider_creation"
    /\ calls' = NoCalls
    /\ log' = Invocation("_wait_for_memory_provider_creation", NoRequest)
    /\ \E args \in WaitCreationArgs : WaitCreationBegin(args, << >>)
    /\ UNCHANGED <<agentcore_memory_id, ssm_param, memories, request, response, created>>
    /\ UNCHANGED stream

CallWaitDeletion ==
    /\ pc = "idle"
    /\ op' = "_wait_for_memory_provider_deletion"
    /\ calls' = NoCalls
    /\ log' = Invocation("_wait_for_memory_provider_deletion", NoRequest)
    /\ \E args \in WaitDeletionArgs : WaitDeletionBegin(args, << >>)
    /\ UNCHANGED <<agentcore_memory_id, ssm_param, memories, request, response, created>>
    /\ UNCHANGED stream

\* The caller takes the result; the process is ready for the next operation.
Finish ==
    /\ pc = "done"
    /\ pc' = "idle"
    /\ op' = "none"
    /\ ret' = RetBase
    /\ exc' = NoExc
    /\ memory_id' = NoneV
    /\ max_attempts' = NoneV
    /\ delay_seconds' = NoneV
    /\ attempt' = 0
    /\ request' = NoRequest
    /\ response' = None
    /\ created' = None
    /\ calls' = NoCalls
    /\ log' = << >>
    /\ obs' = NoObs
    /\ UNCHANGED <<agentcore_memory_id, ssm_param, memories, stack>>
    /\ UNCHANGED stream

\* ------------------------------------------------------------------------
\* Specification
\* ------------------------------------------------------------------------
AtMostOneResource(m) == Cardinality({sfx \in Suffixes : m[sfx] # "ABSENT"}) <= 1

Init ==
    /\ agentcore_memory_id = None
    /\ ssm_param \in {None} \cup MemoryIds
    /\ memories \in {m \in [Suffixes -> Statuses] : AtMostOneResource(m)}
    /\ pc = "idle"
    /\ stack = << >>
    /\ op = "none"
    /\ ret = RetBase
    /\ exc = NoExc
    /\ memory_id = NoneV
    /\ max_attempts = NoneV
    /\ delay_seconds = NoneV
    /\ attempt = 0
    /\ request = NoRequest
    /\ response = None
    /\ created = None
    /\ calls = NoCalls
    /\ log = << >>
    /\ obs = NoObs
    /\ stream = 0

Next ==
    \/ BackendAdvance
    \/ CallWaitCreation
    \/ WaitCreationCheck
    \/ WaitCreationSleep
    \/ CallWaitDeletion
    \/ WaitDeletionCheck
    \/ WaitDeletionSleep
    \/ CallGetSessionContext
    \/ CallGetMemories
    \/ CallGetAgentcoreMemoryId
    \/ CallCreateMemoryProvider
    \/ CallUpsertSessionContext
    \/ CallCreateMemory
    \/ CreateMemory
    \/ CallDeleteMemoryProvider
    \/ DeleteMemoryProvider
    \/ CallUpdateMemoryProvider
    \/ UpdateMemoryProvider
    \/ GetSessionContextResolved
    \/ ResolveLookup
    \/ CreateMemoryProviderCreate
    \/ CreateMemoryProviderAfter
    \/ ResolveCreated
    \/ ResolveWaited
    \/ GetSessionContextListSessions
    \/ InitializeSession
    \/ GetMemories
    \/ GetSessionContextReturn
    \/ Finish

Spec == Init /\ [][Next]_vars

\* ------------------------------------------------------------------------
\* The two poll loops on their own, with the progress the interpreter gives
\* them: a status check that was issued is answered, a sleep returns.
\* ------------------------------------------------------------------------
WaitNext ==
    \/ BackendAdvance
    \/ CallWaitCreation
    \/ WaitCreationCheck
    \/ WaitCreationSleep
    \/ CallWaitDeletion
    \/ WaitDeletionCheck
    \/ WaitDeletionSleep
    \/ Finish

WaitFairness ==
    /\ WF_vars(WaitCreationCheck)
    /\ WF_vars(WaitCreationSleep)
    /\ WF_vars(WaitDeletionCheck)
    /\ WF_vars(WaitDeletionSleep)

WaitSpec == Init /\ [][WaitNext]_vars /\ WaitFairness

\* ------------------------------------------------------------------------
\* Two threads of one process in _get_agentcore_memory_id()
\*
\* The threads share the module global, the configuration store and the
\* backend; each has its own position, call stack, registers, locals and
\* call counters, so these variables are functions of the thread here.  A
\* step is one remote call with the local code around it.
\* ------------------------------------------------------------------------
Callers == {"t1", "t2"}

Put(f, c, v) == [f EXCEPT ![c] = v]

RaceReturnTo(c, stk, val) ==
    /\ ret' = Put(ret, c, val)
    /\ exc' = Put(exc, c, NoExc)
    /\ pc' = Put(pc, c, IF stk = << >> THEN "done" ELSE Head(stk))
    /\ stack' = Put(stack, c, IF stk = << >> THEN << >> ELSE Tail(stk))

RaceRaiseTo(c, stk, e) ==
    /\ ret' = Put(ret, c, RetBase)
    /\ exc' = Put(exc, c, e)
    /\ pc' = Put(pc, c, IF stk = << >> THEN "done" ELSE Head(stk))
    /\ stack' = Put(stack, c, IF stk = << >> THEN << >> ELSE Tail(stk))

RaceGoto(c, label, stk) ==
    /\ pc' = Put(pc, c, label)
    /\ stack' = Put(stack, c, stk)
    /\ UNCHANGED <<ret, exc>>

RaceCalled(c, name) == calls' = [calls EXCEPT ![c][name] = @ + 1]

raceWaitVars == <<memory_id, max_attempts, delay_seconds, attempt>>
raceShared == <<op, request, log, obs, stream>>

\* A thread calls _get_agentcore_memory_id(): `if not agentcore_memory_id:`
RaceCall(c) ==
    /\ pc[c] = "idle"
    /\ IF Truthy(agentcore_memory_id)
       THEN RaceReturnTo(c, << >>, IdV(agentcore_memory_id))
       ELSE RaceGoto(c, "resolve_lookup", << >>)
    /\ UNCHANGED <<agentcore_memory_id, ssm_param, memories, response, created, calls>>
    /\ UNCHANGED raceWaitVars
    /\ UNCHANGED raceShared

\* get_parameters_by_path and the branch on its answer.
RaceLookup(c) ==
    /\ pc[c] = "resolve_lookup"
    /\ RaceCalled(c, "get_parameters_by_path")
    /\ \/ \E e \in SsmErrors :
            /\ RaceRaiseTo(c, stack[c], e)
            /\ UNCHANGED agentcore_memory_id
       \/ LET parameters == GetParametersByPath IN
          IF Len(parameters) > 0
          THEN /\ agentcore_memory_id' = parameters[1].Value
               /\ RaceReturnTo(c, stack[c], IdV(parameters[1].Value))
          ELSE /\ RaceGoto(c, "create_memory", <<"resolve_created">> \o stack[c])
               /\ UNCHANGED agentcore_memory_id
    /\ UNCHANGED <<ssm_param, memories, response, created>>
    /\ UNCHANGED raceWaitVars
    /\ UNCHANGED raceShared

\* Entry of _wait_for_memory_provider_creation in thread c.
RaceWaitBegin(c, args, stk) ==
    LET b == BindWaitCreation(args) IN
    /\ memory_id' = Put(memory_id, c, b.memory_id)
    /\ max_attempts' = Put(max_attempts, c, b.max_attempts)
    /\ delay_seconds' = Put(delay_seconds, c, b.delay_seconds)
    /\ IF b.max_attempts.t # "int"
       THEN attempt' = Put(attempt, c, 0) /\ RaceRaiseTo(c, stk, ConcatTypeError)
       ELSE IF b.max_attempts.n < 1
       THEN attempt' = Put(attempt, c, 0)
            /\ RaceRaiseTo(c, stk, CreationTimeoutError(b.memory_id))
       ELSE attempt' = Put(attempt, c, 1) /\ RaceGoto(c, "wait_creation_check", stk)

\* Mutant: a thread holds back its create call while another thread is
\* between its own create call and its return.
CreateMayProceed_OneAtATime(c) ==
    \A d \in Callers \ {c} : calls[d]["create_memory"] = 0 \/ pc[d] = "done"

\* What stands between the empty lookup and the create call: no lock, no
\* flag, no second look at the cache or the store.
CreateMayProceed(c) == TRUE

\* cls.create_memory_provider(create_request): the create call and the wait
\* that follows it.
RaceCreate(c) ==
    /\ pc[c] = "create_memory"
    /\ CreateMayProceed(c)
    /\ RaceCalled(c, "create_memory")
    /\ \/ /\ \E sfx \in Suffixes : memories[sfx] # "ABSENT"
          /\ exc' = Put(exc, c, AlreadyExistsError(MemoryName))
          /\ pc' = Put(pc, c, "create_memory_after")
          /\ UNCHANGED <<memories, created, stack, ret>>
          /\ UNCHANGED raceWaitVars
       \/ /\ \E e \in TransientErrors : exc' = Put(exc, c, e)
          /\ pc' = Put(pc, c, "create_memory_after")
          /\ UNCHANGED <<memories, created, stack, ret>>
          /\ UNCHANGED raceWaitVars
       \/ /\ \A sfx \in Suffixes : memories[sfx] = "ABSENT"
          /\ \E sfx \in Suffixes :
               /\ memories' = [memories EXCEPT ![sfx] = "CREATING"]
               /\ created' = Put(created, c, MemId(sfx))
               /\ RaceWaitBegin(c, <<ClientV, StrV(MemId(sfx))>>,
                                <<"create_memory_after">> \o stack[c])
    /\ UNCHANGED <<agentcore_memory_id, ssm_param, response>>
    /\ UNCHANGED raceShared

\* `except Exception as create_error:` of create_memory_provider in thread c
RaceCreateExcept(c, e) ==
    IF Contains(<<"already", "exists">>, e.msg)
    THEN /\ RaceCalled(c, "list_memories")
         /\ UNCHANGED <<ssm_param, memories>>
         /\ \/ \E le \in TransientErrors :
                 /\ RaceRaiseTo(c, stack[c], le)
                 /\ UNCHANGED agentcore_memory_id
            \/ /\ agentcore_memory_id' = AdoptExisting(ListMemories, agentcore_memory_id)
               /\ RaceReturnTo(c, stack[c], IdV(agentcore_memory_id'))
    ELSE /\ RaceRaiseTo(c, stack[c], e)
         /\ UNCHANGED <<agentcore_memory_id, ssm_param, memories, calls>>

\* The rest of create_memory_provider after the create call and the wait.
RaceCreateAfter(c) ==
    /\ pc[c] = "create_memory_after"
    /\ IF exc[c] # NoExc
       THEN RaceCreateExcept(c, exc[c])
       ELSE \E r \in GetMemoryResponses(StrV(created[c])) :
              IF ~r.ok
              THEN RaceCreateExcept(c, r.exc)
              ELSE IF r.memory.status # "ACTIVE"
              THEN RaceCreateExcept(c, ProvisioningFailedError(MemoryName))
              ELSE /\ calls' = [calls EXCEPT ![c]["get_memory"] = @ + 1,
                                             ![c]["put_parameter"] = @ + 1]
                   /\ ssm_param' = created[c]
                   /\ agentcore_memory_id' = created[c]
                   /\ RaceReturnTo(c, stack[c], IdV(created[c]))
                   /\ UNCHANGED memories
    /\ UNCHANGED <<response, created>>
    /\ UNCHANGED raceWaitVars
    /\ UNCHANGED raceShared

\* Mutant: the id create_memory_provider returned is taken without waiting.
RaceCreated_SkipsWait(c) ==
    /\ pc[c] = "resolve_created"
    /\ IF exc[c] # NoExc
       THEN RaceRaiseTo(c, stack[c], exc[c]) /\ UNCHANGED response
       ELSE /\ response' = Put(response, c, ret[c].id)
            /\ RaceGoto(c, "resolve_waited", stack[c])
    /\ UNCHANGED <<agentcore_memory_id, ssm_param, memories, created, calls>>
    /\ UNCHANGED raceWaitVars
    /\ UNCHANGED raceShared

\* `cls._wait_for_memory_provider_creation(response)`
RaceCreated(c) ==
    /\ pc[c] = "resolve_created"
    /\ IF exc[c] # NoExc
       THEN RaceRaiseTo(c, stack[c], exc[c]) /\ UNCHANGED <<response, raceWaitVars>>
       ELSE /\ response' = Put(response, c, ret[c].id)
            /\ RaceWaitBegin(c, <<OptV(ret[c].id)>>, <<"resolve_waited">> \o stack[c])
    /\ UNCHANGED <<agentcore_memory_id, ssm_param, memories, created, calls>>
    /\ UNCHANGED raceShared

RaceWaitNext(c) ==
    IF attempt[c] < max_attempts[c].n
    THEN attempt' = Put(attempt, c, attempt[c] + 1)
         /\ RaceGoto(c, "wait_creation_check", stack[c])
    ELSE attempt' = attempt /\ RaceRaiseTo(c, stack[c], CreationTimeoutError(memory_id[c]))

\* One iteration of the creation loop in thread c.
RaceWaitCheck(c) ==
    /\ pc[c] = "wait_creation_check"
    /\ RaceCalled(c, "get_memory")
    /\ \E r \in GetMemoryResponses(memory_id[c]) :
         CASE CreationCheckVerdict(r) = "return" ->
                attempt' = attempt /\ RaceReturnTo(c, stack[c], r.memory)
           [] CreationCheckVerdict(r) = "raise" ->
                attempt' = attempt /\ RaceRaiseTo(c, stack[c], r.exc)
           [] OTHER ->
                IF SleepsAfter(attempt[c], max_attempts[c].n)
                THEN attempt' = attempt /\ RaceGoto(c, "wait_creation_sleep", stack[c])
                ELSE RaceWaitNext(c)
    /\ UNCHANGED <<agentcore_memory_id, ssm_param, memories, response, created,
                   memory_id, max_attempts, delay_seconds>>
    /\ UNCHANGED raceShared

RaceWaitSleep(c) ==
    /\ pc[c] = "wait_creation_sleep"
    /\ RaceCalled(c, "sleep")
    /\ RaceWaitNext(c)
    /\ UNCHANGED <<agentcore_memory_id, ssm_param, memories, response, created,
                   memory_id, max_attempts, delay_seconds>>
    /\ UNCHANGED raceShared

\* `agentcore_memory_id = response` and put_parameter(..., Overwrite=True)
RaceWaited(c) ==
    /\ pc[c] = "resolve_waited"
    /\ IF exc[c] # NoExc
       THEN /\ RaceRaiseTo(c, stack[c], exc[c])
            /\ UNCHANGED <<agentcore_memory_id, ssm_param, calls>>
       ELSE /\ agentcore_memory_id' = response[c]
            /\ RaceCalled(c, "put_parameter")
            /\ \/ \E e \in SsmErrors :
                    /\ RaceRaiseTo(c, stack[c], e)
                    /\ UNCHANGED ssm_param
               \/ /\ ssm_param' = response[c]
                  /\ RaceReturnTo(c, stack[c], IdV(response[c]))
    /\ UNCHANGED <<memories, response, created>>
    /\ UNCHANGED raceWaitVars
    /\ UNCHANGED raceShared

\* First-time resolution: nothing cached, no entry in the store.
RaceInit ==
    /\ agentcore_memory_id = None
    /\ ssm_param = None
    /\ memories \in {m \in [Suffixes -> Statuses] : AtMostOneResource(m)}
    /\ pc = [c \in Callers |-> "idle"]
    /\ stack = [c \in Callers |-> << >>]
    /\ op = "_get_agentcore_memory_id"
    /\ ret = [c \in Callers |-> RetBase]
    /\ exc = [c \in Callers |-> NoExc]
    /\ memory_id = [c \in Callers |-> NoneV]
    /\ max_attempts = [c \in Callers |-> NoneV]
    /\ delay_seconds = [c \in Callers |-> NoneV]
    /\ attempt = [c \in Callers |-> 0]
    /\ request = NoRequest
    /\ response = [c \in Callers |-> None]
    /\ created = [c \in Callers |-> None]
    /\ calls = [c \in Callers |-> NoCalls]
    /\ log = << >>
    /\ obs = NoObs
    /\ stream = 0

RaceNext ==
    \/ BackendAdvance
    \/ \E c \in Callers : RaceCall(c)
    \/ \E c \in Callers : RaceLookup(c)
    \/ \E c \in Callers : RaceCreate(c)
    \/ \E c \in Callers : RaceCreateAfter(c)
    \/ \E c \in Callers : RaceCreated(c)
    \/ \E c \in Callers : RaceWaitCheck(c)
    \/ \E c \in Callers : RaceWaitSleep(c)
    \/ \E c \in Callers : RaceWaited(c)

RaceSpec == RaceInit /\ [][RaceNext]_vars

\* ------------------------------------------------------------------------
\* Properties of the wait loops
\* ------------------------------------------------------------------------
InWaitCreation == op = "_wait_for_memory_provider_creation"
InWaitDeletion == op = "_wait_for_memory_provider_deletion"
InWait == InWaitCreation \/ InWaitDeletion
WaitLoopRan == InWait /\ max_attempts.t = "int" /\ max_attempts.n >= 1
RaisedTimeout == pc = "done" /\ exc.type = "TimeoutError"
AfterSleeps(k) == obs.sleeps = k /\ obs.slept = k * delay_seconds.n

C2_ReturnsAtFirstTerminal ==
    (WaitLoopRan /\ obs.firstTerminal # 0) =>
        /\ pc = "done"
        /\ exc = NoExc
        /\ obs.firstTerminal <= max_attempts.n
        /\ obs.checks = obs.firstTerminal
        /\ AfterSleeps(obs.firstTerminal - 1)
        /\ InWaitCreation => (ret.kind = "memory_details" /\ ret.status = "ACTIVE")
        /\ InWaitDeletion => ret = TrueV

C2_Witness ==
    /\ InWaitCreation /\ pc = "done"
    /\ obs.firstTerminal = 2 /\ obs.checks = 2 /\ obs.sleeps = 1
    /\ ret.status = "ACTIVE"

\* C3: in the creation loop a status check answered "not found" is an ordinary
\* consumed attempt: the loop sleeps and goes on, or, if it was the last
\* attempt, times out; the backend's error is never raised, and a later
\* ACTIVE answer still makes the loop return the details.
C3_CreationNotFoundContinues ==
    (InWaitCreation /\ WaitLoopRan) =>
        /\ obs.last = "not_found" =>
              \/ /\ pc = "wait_creation_sleep"
                 /\ attempt = obs.checks /\ attempt < max_attempts.n
              \/ /\ RaisedTimeout /\ obs.checks = max_attempts.n
        /\ (obs.sawNotFound /\ obs.last = "ACTIVE") =>
              (pc = "done" /\ exc = NoExc /\ ret.status = "ACTIVE")

C3_Witness ==
    /\ InWaitCreation /\ pc = "done" /\ exc = NoExc
    /\ obs.sawNotFound /\ ret.status = "ACTIVE"

\* C4: in the deletion loop the first "not found" answer ends the loop at
\* once with True (no further check, no further sleep; on the first check:
\* 1 check, 0 sleeps), and an answer that still retrieves the resource never
\* ends it with a return, whatever the status.
C4_DeletionNotFoundIsSuccess ==
    (InWaitDeletion /\ WaitLoopRan) =>
        /\ obs.sawNotFound =>
              /\ pc = "done" /\ ret = TrueV /\ exc = NoExc
              /\ obs.last = "not_found"
              /\ obs.sleeps = obs.checks - 1
        /\ obs.last \in Statuses =>
              \/ pc = "wait_deletion_sleep"
              \/ RaisedTimeout /\ obs.checks = max_attempts.n

C4_Witness ==
    /\ InWaitDeletion /\ pc = "done" /\ ret = TrueV
    /\ obs.checks = 1 /\ obs.sleeps = 0 /\ calls["sleep"] = 0

\* C5: in both loops a status check that raises anything but not-found only
\* consumes its attempt: the loop goes on or, after the last attempt, raises
\* TimeoutError; the backend's error itself is never what the loop raises.
C5_UnexpectedErrorConsumesAttempt ==
    (InWait /\ WaitLoopRan) =>
        /\ obs.last = "other_error" =>
              \/ /\ pc \in {"wait_creation_sleep", "wait_deletion_sleep"}
                 /\ attempt = obs.checks /\ attempt < max_attempts.n
              \/ /\ RaisedTimeout /\ obs.checks = max_attempts.n
        /\ (pc = "done" /\ obs.sawOther /\ ~obs.sawNotFound /\ ~obs.sawStatus) =>
              (exc.type = "TimeoutError" /\ obs.checks = max_attempts.n)
        /\ exc \notin TransientErrors

C5_Witness ==
    /\ InWaitDeletion /\ RaisedTimeout
    /\ obs.sawOther /\ ~obs.sawNotFound /\ ~obs.sawStatus
    /\ obs.checks = max_attempts.n /\ max_attempts.n >= 2

\* ------------------------------------------------------------------------
\* Properties of session resolution
\* ------------------------------------------------------------------------
InGetSessionContext == op = "get_session_context"
GetSessionContextDone == InGetSessionContext /\ pc = "done"

\* The call log positions of a client method.
CallsTo(c) == {i \in DOMAIN log : log[i].call = c}

\* The session a resolver must pick: the maximal createdAt, the first of them
\* in list order.
MostRecentSummary(items) ==
    items[CHOOSE i \in DOMAIN items :
            \A j \in DOMAIN items :
               \/ items[j].createdAt < items[i].createdAt
               \/ items[j].createdAt = items[i].createdAt /\ i <= j]

ResolutionCalls == {"get_parameters_by_path", "create_memory", "list_memories",
                    "get_memory", "sleep", "put_parameter"}

InitializationContext(user, sid) ==
    [RetBase EXCEPT !.kind = "SessionContext", !.id = sid, !.user = user,
                    !.messages = <<[role |-> "assistant",
                                    content |-> <<[type |-> "text",
                                                   text |-> InitializationText]>>]>>]

\* C6: when get_session_context is called without a session id and the backend
\* lists one or more sessions, the finished operation has issued a list_events
\* call for the sessionId of the session with the greatest createdAt.
C6_RetrievesMostRecentSession ==
    \A i \in CallsTo("list_sessions") :
        (GetSessionContextDone /\ log[i].answer.ok /\ Len(log[i].answer.items) > 0) =>
            \E j \in CallsTo("list_events") :
                /\ j > i
                /\ log[j].sessionId = MostRecentSummary(log[i].answer.items).sessionId

\* C7: when get_session_context is called without a session id and the backend
\* lists no session for the actor, the finished operation has issued exactly
\* one create_event call and no list_events call, and what it returns is the
\* context of the new session: the caller's actor id, the session id the
\* backend assigned, and the single assistant message with the fixed text.
C7_EmptyListInitializesSession ==
    \A i \in CallsTo("list_sessions") :
        (GetSessionContextDone /\ log[i].answer.ok /\ Len(log[i].answer.items) = 0) =>
            /\ calls["create_event"] = 1
            /\ calls["list_events"] = 0
            /\ \A j \in CallsTo("create_event") :
                  /\ log[j].actorId = log[1].actorId
                  /\ log[j].answer.ok <=> exc = NoExc
                  /\ log[j].answer.ok =>
                        /\ ret = InitializationContext(log[1].actorId,
                                                       log[j].answer.items[1].sessionId)
                        /\ Len(ret.messages) = 1

C7_Witness ==
    /\ GetSessionContextDone /\ exc = NoExc
    /\ \E i \in CallsTo("list_sessions") : log[i].answer.ok /\ log[i].answer.items = << >>
    /\ ret.kind = "SessionContext" /\ ret.user = <<"u1">>
    /\ calls["create_event"] = 1

\* C8: when list_sessions fails with the actor-not-found error
\* (ResourceNotFoundException), the listing error is not what the operation
\* raises: exactly one create_event call follows, no list_events call is made,
\* and the new session's context is returned as soon as the append succeeds.
C8_ActorNotFoundInitializesSession ==
    \A i \in CallsTo("list_sessions") :
        (GetSessionContextDone /\ log[i].answer = Failed(Exc("ClientError", MsgActorNotFound))) =>
            /\ exc # log[i].answer.exc
            /\ exc.type \notin {"UnboundLocalError", "KeyError"}
            /\ calls["create_event"] = 1
            /\ calls["list_events"] = 0
            /\ log[Len(log)].call = "create_event"
            /\ log[Len(log)].answer.ok =>
                  /\ exc = NoExc
                  /\ ret = InitializationContext(log[1].actorId,
                                                 log[Len(log)].answer.items[1].sessionId)

C8_Witness ==
    /\ GetSessionContextDone /\ exc = NoExc
    /\ \E i \in CallsTo("list_sessions") : ~log[i].answer.ok
    /\ ret.kind = "SessionContext" /\ Len(ret.messages) = 1
    /\ calls["create_event"] = 1 /\ calls["list_events"] = 0

\* C9: when list_sessions fails with an error other than actor-not-found, the
\* operation raises that very error, and has issued neither a create_event
\* nor a list_events call.
C9_ListingErrorPropagatesUnchanged ==
    \A i \in CallsTo("list_sessions") :
        (/\ GetSessionContextDone
         /\ ~log[i].answer.ok
         /\ log[i].answer.exc # Exc("ClientError", MsgActorNotFound)) =>
            /\ exc = log[i].answer.exc
            /\ calls["create_event"] = 0
            /\ calls["list_events"] = 0

\* C10: when get_session_context is called with a session id, it never issues
\* a list_sessions or a create_event call; once the memory id is resolved it
\* issues exactly one list_events call, for the supplied session id and actor
\* (the operation ends without one only if resolving the memory id raised).
C10_ExplicitSessionSkipsResolution ==
    (InGetSessionContext /\ Truthy(log[1].sessionId)) =>
        /\ calls["list_sessions"] = 0
        /\ calls["create_event"] = 0
        /\ calls["list_events"] <= 1
        /\ \A j \in CallsTo("list_events") :
              /\ log[j].sessionId = log[1].sessionId
              /\ log[j].actorId = log[1].actorId
        /\ pc = "done" =>
              \/ calls["list_events"] = 1
              \/ /\ exc # NoExc
                 /\ log[Len(log)].call \in ResolutionCalls

C10_Witness ==
    /\ GetSessionContextDone /\ exc = NoExc
    /\ log[1].sessionId = <<"s1">>
    /\ ret.kind = "GetSessionContextResponse"
    /\ calls["list_events"] = 1 /\ calls["list_sessions"] = 0

\* ------------------------------------------------------------------------
\* Properties of event retrieval
\* ------------------------------------------------------------------------
InGetMemories == op = "get_memories"
GetMemoriesDone == InGetMemories /\ pc = "done"

\* C11: a finished get_memories has issued exactly one list_events call, which
\* carries a nextToken exactly when the request has one, and then the
\* request's; when the call answers, the operation returns a list with the
\* length and order of the answer's events, each event without its memoryId
\* and actorId keys and with every other field as the backend reported it.
C11_OneCallStrippedSameOrder ==
    GetMemoriesDone =>
        /\ calls["list_events"] = 1
        /\ Len(log) = 2
        /\ log[2].call = "list_events"
        /\ log[2].hasToken <=> Truthy(log[1].nextToken)
        /\ log[2].hasToken => log[2].nextToken = log[1].nextToken
        /\ log[2].answer.ok =>
              /\ exc = NoExc
              /\ ret.kind = "list"
              /\ Len(ret.events) = Len(log[2].answer.items)
              /\ \A i \in DOMAIN ret.events :
                    LET raw == log[2].answer.items[i] IN
                    /\ DOMAIN ret.events[i] = (DOMAIN raw) \ {"memoryId", "actorId"}
                    /\ \A k \in DOMAIN ret.events[i] : ret.events[i][k] = raw[k]

C11_Witness ==
    /\ GetMemoriesDone /\ exc = NoExc
    /\ log[1].nextToken = <<"tok">> /\ log[2].nextToken = <<"tok">>
    /\ Len(ret.events) = 2
    /\ ret.events[1].eventId = <<"e2">> /\ ret.events[2].eventId = <<"e1">>
    /\ "memoryId" \in DOMAIN log[2].answer.items[1]
    /\ "memoryId" \notin DOMAIN ret.events[1]

\* The continuation token a caller can read from a returned value.
ReturnedToken(v) == IF "nextToken" \in DOMAIN v THEN v.nextToken ELSE None

\* C12: when list_events answers a page with a nextToken, the finished
\* get_memories hands that token to its caller together with the events.
C12_ReturnsContinuationToken ==
    (GetMemoriesDone /\ log[2].answer.ok /\ Truthy(log[2].answer.token)) =>
        /\ exc = NoExc
        /\ ret.events = StripEvents(log[2].answer.items)
        /\ ReturnedToken(ret) = log[2].answer.token

\* ------------------------------------------------------------------------
\* Properties of update_memory_provider
\* ------------------------------------------------------------------------
InUpdateMemoryProvider == op = "update_memory_provider"
UpdateMemoryProviderDone == InUpdateMemoryProvider /\ pc = "done"
SuppliedFields == (DOMAIN log[1].params) \ {"id"}

\* C13: update_memory_provider called with none of description, retention and
\* strategies supplied ends without an error, has issued no update_memory
\* call, and returns the details its get_memory call fetched.
C13_NoFieldsIsNoOp ==
    (UpdateMemoryProviderDone /\ SuppliedFields = {}) =>
        /\ calls["update_memory"] = 0
        /\ exc = NoExc
        /\ calls["get_memory"] = 1
        /\ ret.kind = "memory_details"
        /\ ret.id = log[1].memoryId.s

\* C14: update_memory_provider called with at least one of description,
\* retention and strategies supplied has, when it ends, issued exactly one
\* update_memory call carrying the id and exactly the supplied fields,
\* followed by a get_memory call whose view it returns.
C14_OneUpdateThenRefetch ==
    (UpdateMemoryProviderDone /\ SuppliedFields # {}) =>
        /\ calls["update_memory"] = 1
        /\ \A i \in CallsTo("update_memory") :
              /\ log[i].params = log[1].params
              /\ \E j \in CallsTo("get_memory") : j > i
        /\ exc = NoExc => ret.kind = "update_result"

\* ------------------------------------------------------------------------
\* Properties of _get_agentcore_memory_id
\* ------------------------------------------------------------------------
InResolve == op = "_get_agentcore_memory_id"
ResolveDone == InResolve /\ pc = "done"
CacheWasSet == InResolve /\ log[1].memoryId.t = "str"
CacheWasEmpty == InResolve /\ log[1].memoryId = NoneV
\* The lookup of an empty-cache resolution, once it is made, is the first call.
LookupAnswered == CacheWasEmpty /\ Len(log) >= 2 /\ log[2].answer.ok
StoreCalls == {"get_parameters_by_path", "put_parameter"}

\* C15: _get_agentcore_memory_id called while the cache holds an id is over at
\* once: it returns the cached id, has made no remote call of any kind, and
\* the cache still holds the same id.
C15_CachedIdNoRemoteCalls ==
    CacheWasSet =>
        /\ pc = "done"
        /\ exc = NoExc
        /\ ret = IdV(log[1].memoryId.s)
        /\ calls = NoCalls
        /\ Len(log) = 1
        /\ agentcore_memory_id = log[1].memoryId.s

C15_Witness ==
    /\ ResolveDone /\ CacheWasSet
    /\ ret = IdV(MemId("a1")) /\ agentcore_memory_id = MemId("a1")
    /\ ssm_param = None

\* C16: _get_agentcore_memory_id called with an empty cache whose lookup finds
\* an id in the configuration store returns that id and caches it, having
\* made the lookup and no other call: no create_memory, no put_parameter.
C16_StoredIdCachedAndReturned ==
    (ResolveDone /\ LookupAnswered /\ Len(log[2].answer.items) > 0) =>
        /\ exc = NoExc
        /\ ret = IdV(log[2].answer.items[1].Value)
        /\ agentcore_memory_id = log[2].answer.items[1].Value
        /\ ssm_param = log[2].answer.items[1].Value
        /\ calls["create_memory"] = 0
        /\ calls["put_parameter"] = 0
        /\ Len(log) = 2

C16_Witness ==
    /\ ResolveDone /\ LookupAnswered
    /\ log[2].call = "get_parameters_by_path"
    /\ log[2].answer.items = <<[Name |-> ParamName, Value |-> MemId("b2")]>>
    /\ ret = IdV(MemId("b2")) /\ agentcore_memory_id = MemId("b2")

C18_StoreErrorPropagatesUnchanged ==
    \A i \in DOMAIN log :
        (ResolveDone /\ i > 1 /\ log[i].call \in StoreCalls /\ ~log[i].answer.ok) =>
            /\ exc = log[i].answer.exc
            /\ i = Len(log)
            /\ calls[log[i].call] = 1

C18_Witness ==
    /\ ResolveDone
    /\ log[Len(log)].call = "put_parameter"
    /\ ~log[Len(log)].answer.ok
    /\ exc = log[Len(log)].answer.exc /\ exc \in SsmErrors

C18_WitnessLookup ==
    /\ ResolveDone /\ Len(log) = 2
    /\ log[2].call = "get_parameters_by_path" /\ ~log[2].answer.ok
    /\ exc \in SsmErrors

\* ------------------------------------------------------------------------
\* Properties of create_memory_provider
\* ------------------------------------------------------------------------
InCreateMemoryProvider == op = "create_memory_provider"
CreateMemoryProviderDone == InCreateMemoryProvider /\ pc = "done"
\* The create_memory call of a create_memory_provider is its first call.
CreateCallMade == InCreateMemoryProvider /\ Len(log) >= 2 /\ log[2].call = "create_memory"
SaysAlreadyExists(e) == Contains(<<"already", "exists">>, e.msg)
\* The ids of a listing whose prefix before the first "-" is the canonical name.
MatchingIds(mems) ==
    {mems[i].id : i \in {j \in DOMAIN mems : SplitFirst(mems[j].id, "-") = MemoryName}}

\* C19: a finished create_memory_provider returns the id of the environment's
\* resource without raising both when its create_memory call created the
\* resource and when it failed with "already exists" and the listing that
\* followed holds an id with the canonical name as prefix (the id returned
\* then is that one), so that two creations in a row return one id.
C19_CreateTwiceSameId ==
    (CreateMemoryProviderDone /\ CreateCallMade) =>
        /\ log[2].answer.ok =>
              /\ exc = NoExc
              /\ ret = IdV(log[2].answer.items[1].id)
        /\ (~log[2].answer.ok /\ SaysAlreadyExists(log[2].answer.exc)) =>
              /\ calls["list_memories"] = 1
              /\ \A i \in CallsTo("list_memories") :
                    (log[i].answer.ok /\ MatchingIds(log[i].answer.items) # {}) =>
                        /\ exc = NoExc
                        /\ ret.kind = "str"
                        /\ ret.id \in MatchingIds(log[i].answer.items)

\* C20: a create_memory_provider whose create_memory call failed with an
\* error that does not say "already exists" raises that error, has made no
\* list_memories call, and leaves the cached id and the configuration store
\* entry as they were when it was called.
C20_OtherCreateFailurePropagates ==
    (/\ CreateMemoryProviderDone /\ CreateCallMade
     /\ ~log[2].answer.ok /\ ~SaysAlreadyExists(log[2].answer.exc)) =>
        /\ exc = log[2].answer.exc
        /\ calls["list_memories"] = 0
        /\ Len(log) = 2
        /\ OptV(agentcore_memory_id) = log[1].memoryId
        /\ ssm_param = log[1].value

C20_Witness ==
    /\ CreateMemoryProviderDone /\ CreateCallMade
    /\ log[2].answer = Failed(Exc("ClientError", MsgUnavailable))
    /\ exc = Exc("ClientError", MsgUnavailable)
    /\ agentcore_memory_id = MemId("a1") /\ ssm_param = MemId("a1")
    /\ log[1].n = TestRetentionDays

\* A status check of the running operation saw the resource ACTIVE.
ObservedActive == calls["get_memory"] >= 1 /\ obs.firstTerminal >= 1

\* C21: a create_memory_provider that returns an id has, before returning,
\* made a status check that saw the resource ACTIVE and written the returned
\* id to the configuration store.
C21_ReturnsAfterActiveAndPersisted ==
    (CreateMemoryProviderDone /\ exc = NoExc) =>
        /\ ObservedActive
        /\ \E i \in CallsTo("put_parameter") : log[i].answer.ok /\ log[i].value = ret.id
        /\ ssm_param = ret.id

\* The create_memory call of the running create_memory_provider made a resource.
CreatedNewResource == CreateCallMade /\ log[2].answer.ok
CreatedResourceIs(st) == \E sfx \in Suffixes : created = MemId(sfx) /\ memories[sfx] = st
IsProvisioningFailed(e) ==
    e.type = "Exception" /\ Contains(<<"Failed", "to", "create", "memory">>, e.msg)

\* C22: a create_memory_provider that ends while the resource it created is
\* FAILED has raised the provisioning-failed error (a timeout only if no
\* status check saw FAILED), returned no id and written nothing to the
\* configuration store; and the creation wait itself does not answer a
\* FAILED status with a timeout.
C22_FailedStatusIsProvisioningFailed ==
    /\ (CreateMemoryProviderDone /\ CreatedNewResource /\ CreatedResourceIs("FAILED")) =>
          /\ \/ IsProvisioningFailed(exc)
             \/ exc.type = "TimeoutError" /\ obs.last # "FAILED"
          /\ calls["put_parameter"] = 0
          /\ ssm_param = log[1].value
    /\ (InWaitCreation /\ pc = "done" /\ obs.last = "FAILED") =>
          exc.type # "TimeoutError"

\* C23: a create_memory_provider whose create_memory call made a resource
\* polls its status; when the first check answers a status that is not
\* ACTIVE and the second ACTIVE, it returns the new id after exactly 2
\* status checks and 1 sleep, and the cache holds that id.
C23_CreatingThenActiveReturnsAfterTwoChecks ==
    (CreateMemoryProviderDone /\ CreatedNewResource) =>
        /\ obs.checks >= 1
        /\ (obs.firstTerminal = 2 /\ ~obs.sawNotFound /\ ~obs.sawOther) =>
              /\ exc = NoExc
              /\ ret = IdV(created)
              /\ obs.checks = 2
              /\ obs.sleeps = 1
              /\ agentcore_memory_id = created

\* ------------------------------------------------------------------------
\* Properties of delete_memory_provider
\* ------------------------------------------------------------------------
InDeleteMemoryProvider == op = "delete_memory_provider"
DeleteMemoryProviderDone == InDeleteMemoryProvider /\ pc = "done"

\* C24: a finished delete_memory_provider has issued exactly one
\* delete_memory call, for the requested id; when the call succeeded the
\* operation returns that id, when it failed the operation raises the call's
\* error.
C24_OneDeleteCallIdOrSameError ==
    DeleteMemoryProviderDone =>
        /\ calls["delete_memory"] = 1
        /\ \A i \in CallsTo("delete_memory") :
              /\ log[i].memoryId = log[1].memoryId
              /\ log[i].answer.ok => (exc = NoExc /\ ret = IdV(log[1].memoryId.s))
              /\ ~log[i].answer.ok => exc = log[i].answer.exc

\* ------------------------------------------------------------------------
\* Properties of upsert_session_context and create_memory
\* ------------------------------------------------------------------------
InUpsert == op = "upsert_session_context"
InCreateMemory == op = "create_memory"
CreateMemoryDone == InCreateMemory /\ pc = "done"
NewestMessage == request.messages[Len(request.messages)]

\* C25: an upsert_session_context is over as soon as it is invoked: it
\* returns None without an error, has made no call to any client, and the
\* cached id, the configuration store, the backend's resources and its event
\* stream are what they were at the invocation.
C25_UpsertIsNoOp ==
    InUpsert =>
        /\ pc = "done"
        /\ exc = NoExc
        /\ ret = RetBase
        /\ calls = NoCalls
        /\ Len(log) = 1
        /\ OptV(agentcore_memory_id) = log[1].memoryId
        /\ ssm_param = log[1].value
        /\ stream = log[1].n

C25_Witness ==
    /\ InUpsert /\ pc = "done"
    /\ Len(request.messages) = 2
    /\ agentcore_memory_id = MemId("a1")
    /\ stream = 1 /\ log[1].n = 1

\* C26: a finished create_memory given one or more messages has issued
\* exactly one create_event call, for the request's session and actor, whose
\* payload is the single turn made of the last message; when the call is
\* acknowledged the operation returns a Memory with the role and the text of
\* the acknowledged turn.
C26_AppendsNewestReturnsAcknowledged ==
    (CreateMemoryDone /\ request.messages # << >>) =>
        /\ calls["create_event"] = 1
        /\ Len(log) = 2
        /\ log[2].sessionId = request.session_id
        /\ log[2].actorId = request.user_id
        /\ log[2].params["payload"] = <<ConversationalTurn(NewestMessage)>>
        /\ log[2].answer.ok =>
              /\ exc = NoExc
              /\ ret = MemoryV(NewestMessage.role, NewestMessage.content)

\* C27: every create_memory given one or more messages issues one
\* create_event call, whatever the stream already holds, and the call has
\* no clientToken; each acknowledged call leaves the stream one event
\* longer than it was at the invocation, each failed call leaves it as it
\* was.
C27_NoIdempotencyKeyEveryCallAppends ==
    (CreateMemoryDone /\ request.messages # << >>) =>
        /\ calls["create_event"] = 1
        /\ \A i \in CallsTo("create_event") :
              /\ "clientToken" \notin DOMAIN log[i].params
              /\ log[i].answer.ok => stream = log[1].n + 1
              /\ ~log[i].answer.ok => stream = log[1].n

C27_Witness ==
    /\ CreateMemoryDone
    /\ request.messages = <<UserTurn>>
    /\ log[1].n = 1 /\ stream = 2
    /\ calls["create_event"] = 1 /\ log[2].answer.ok

\* ------------------------------------------------------------------------
\* Properties of the lazy resolution of the memory id
\* ------------------------------------------------------------------------
DataPlaneOps == {"get_session_context", "get_memories", "create_memory"}
EventCalls == {"list_events", "create_event"}

\* C28: every list_events and create_event call issued by get_session_context,
\* get_memories or create_memory carries a memory id that is a non-empty
\* string, whatever the process did before.
C28_EventCallsCarryResolvedId ==
    \A i \in DOMAIN log :
        (op \in DataPlaneOps /\ i > 1 /\ log[i].call \in EventCalls) =>
            /\ log[i].memoryId.t = "str"
            /\ Truthy(log[i].memoryId.s)

ResolvingOps == {"_get_agentcore_memory_id", "get_session_context"}

\* C29: in a resolution of the memory id, every create_memory call comes
\* after a get_parameters_by_path call that answered no entry, and every
\* put_parameter call comes right after the status check that ended the
\* creation wait by seeing ACTIVE, and writes the id that wait was for.
C29_LookupBeforeCreateActiveBeforeWrite ==
    op \in ResolvingOps =>
        /\ \A i \in CallsTo("create_memory") :
              \E j \in CallsTo("get_parameters_by_path") :
                  j < i /\ log[j].answer.ok /\ log[j].answer.items = << >>
        /\ \A i \in CallsTo("put_parameter") :
              /\ obs.checks >= 1
              /\ obs.firstTerminal = obs.checks
              /\ memory_id = StrV(log[i].value)
              /\ log[i - 1].call = "get_memory"
              /\ log[i - 1].memoryId = StrV(log[i].value)
        /\ ssm_param # None =>
              \/ calls["put_parameter"] = 0
              \/ \E i \in CallsTo("put_parameter") : ssm_param = log[i].value

C29_Witness ==
    /\ ResolveDone /\ exc = NoExc
    /\ calls["create_memory"] = 1 /\ calls["put_parameter"] = 1
    /\ obs.checks = 2 /\ obs.firstTerminal = 2 /\ obs.sleeps = 1
    /\ ssm_param = MemId("b2")

\* ------------------------------------------------------------------------
\* Properties of concurrent first-time resolution (RaceSpec)
\* ------------------------------------------------------------------------
AfterCreateCall == {"create_memory_after", "resolve_created", "wait_creation_check",
                    "wait_creation_sleep", "resolve_waited"}
IssuedCreate(c) == calls[c]["create_memory"] >= 1

\* C30: with two callers in first-time resolution (nothing cached, no entry
\* in the store) nothing serializes them before the create: a caller whose
\* lookup came back empty can issue its create call whatever the other
\* caller is doing, and every caller that got past that point has issued
\* one, so that both callers having issued a create call is reachable.
C30_NothingSerializesCreate ==
    \A c \in Callers :
        /\ pc[c] = "create_memory" => ENABLED RaceCreate(c)
        /\ pc[c] \in AfterCreateCall => calls[c]["create_memory"] = 1
        /\ IssuedCreate(c) => calls[c]["get_parameters_by_path"] = 1

\* Both callers have issued their create call and neither is back from it.
C30_Witness ==
    \A c \in Callers : IssuedCreate(c) /\ pc[c] = "create_memory_after"

BothReturned == \A c \in Callers : pc[c] = "done" /\ exc[c] = NoExc
ExistingIds == {MemId(sfx) : sfx \in {x \in Suffixes : memories[x] # "ABSENT"}}

\* C31: when two callers race through first-time resolution and both return
\* normally, both hold the same non-empty id, the shared cache holds it, and
\* exactly one resource exists for the environment: the one with that id.
C31_RaceEndsWithOneSharedId ==
    BothReturned =>
        \E id \in MemoryIds :
            /\ \A c \in Callers : ret[c] = IdV(id)
            /\ agentcore_memory_id = id
            /\ ExistingIds = {id}

\* Both callers issued a create call, both were told "already exists", and
\* both returned.
C31_Witness ==
    /\ BothReturned
    /\ \A c \in Callers : IssuedCreate(c) /\ calls[c]["list_memories"] = 1

\* ------------------------------------------------------------------------
\* Properties of error handling, caches and termination
\* ------------------------------------------------------------------------
\* get_memory is the status check of the two poll loops.
PollCalls == {"get_memory", "sleep"}
FailedCalls == {i \in DOMAIN log : ~log[i].answer.ok /\ log[i].call \notin PollCalls}

\* C32: outside the two poll loops no remote call that failed is issued
\* again: within one invocation a failed call to the backend or to the
\* configuration store is the only call of that method.
C32_FailedCallIsNotReissued ==
    \A i \in FailedCalls :
        /\ calls[log[i].call] = 1
        /\ \A j \in DOMAIN log : log[j].call = log[i].call => j = i

\* A resolution ended by the failure of its one lookup.
C32_Witness ==
    /\ ResolveDone /\ exc \in SsmErrors
    /\ \E i \in FailedCalls : log[i].call = "get_parameters_by_path" /\ log[i].answer.exc = exc

\* C33: a resolution of the memory id that returns normally returns the id
\* of a resource that exists in the backend, also when the cache or the
\* store entry it started from held the id of a resource that is gone.
C33_ResolutionToleratesStaleId ==
    (ResolveDone /\ exc = NoExc) => ret.id \in ExistingIds

\* C34: the TimeoutError a poll loop raises when its attempts are exhausted
\* carries the resource id, the operation it belongs to (creation or
\* deletion) and the number of attempts made.
C34_TimeoutCarriesIdOperationAttempts ==
    (InWait /\ RaisedTimeout) =>
        /\ Contains(memory_id.s, exc.msg)
        /\ InWaitCreation => Contains(<<"did", "not", "become", "available">>, exc.msg)
        /\ InWaitDeletion => Contains(<<"was", "not", "deleted">>, exc.msg)
        /\ Contains(<<ToString(obs.checks)>>, exc.msg)

\* The listed sessions that share the greatest createdAt.
NewestSessions(items) ==
    {i \in DOMAIN items : \A j \in DOMAIN items : items[j].createdAt <= items[i].createdAt}

\* C35: when several listed sessions share the greatest createdAt, the
\* finished get_session_context has retrieved the events of the one that
\* comes first in the list, never of a later one.
C35_TieKeepsFirstListed ==
    \A i \in CallsTo("list_sessions") :
        LET items == log[i].answer.items IN
        (GetSessionContextDone /\ log[i].answer.ok /\ Cardinality(NewestSessions(items)) > 1) =>
            /\ calls["list_events"] = 1
            /\ \A j \in CallsTo("list_events") :
                  \A k \in NewestSessions(items) :
                     log[j].sessionId = items[k].sessionId =>
                        \A m \in NewestSessions(items) : k <= m

\* C36: a create_memory_provider that returns normally after its create call
\* was refused with "already exists" returns a non-empty id that the
\* list_memories answer holds with the canonical name as prefix, never an
\* empty value and never an id the answer does not hold.
C36_AdoptedIdComesFromListing ==
    (CreateMemoryProviderDone /\ exc = NoExc) =>
        \A i \in CallsTo("list_memories") :
            /\ Truthy(ret.id)
            /\ ret.id \in MatchingIds(log[i].answer.items)

\* C37: a resolution of the memory id that started with an empty cache and
\* ended by raising leaves the cache empty.
C37_FailedResolutionLeavesCacheEmpty ==
    (ResolveDone /\ CacheWasEmpty /\ exc # NoExc) => agentcore_memory_id = None

\* C38: delete_memory_provider issues its single delete_memory call and
\* changes neither the cached id nor the configuration store entry, whether
\* the call succeeds or fails.
C38_DeleteTouchesOnlyBackend ==
    [][DeleteMemoryProvider =>
         /\ agentcore_memory_id' = agentcore_memory_id
         /\ ssm_param' = ssm_param
         /\ calls'["delete_memory"] = 1
         /\ \A c \in CallNames \ {"delete_memory"} : calls'[c] = 0]_vars

\* C39: a get_session_context called without a session id and with a
\* continuation token that found sessions listed has retrieved the events of
\* the resolved session with a list_events call that carries no
\* continuation token; the token went to list_sessions only.
C39_TokenNotForwardedToListEvents ==
    \A i \in CallsTo("list_sessions") :
        (/\ GetSessionContextDone
         /\ log[1].sessionId = None /\ Truthy(log[1].nextToken)
         /\ log[i].answer.ok /\ Len(log[i].answer.items) > 0) =>
            /\ log[i].hasToken /\ log[i].nextToken = log[1].nextToken
            /\ calls["list_events"] = 1
            /\ \A j \in CallsTo("list_events") : ~log[j].hasToken

ChecksWithinBudget ==
    (InWait /\ max_attempts.t = "int") =>
        /\ obs.checks <= (IF max_attempts.n > 0 THEN max_attempts.n ELSE 0)
        /\ calls["get_memory"] = obs.checks
        /\ max_attempts.n <= 0 =>
              /\ RaisedTimeout
              /\ obs.checks = 0 /\ obs.sleeps = 0
              /\ calls = NoCalls
WaitLoopOver ==
    /\ pc = "done"
    /\ max_attempts.t = "int" => (exc = NoExc \/ exc.type = "TimeoutError")

\* C40: both poll loops terminate whatever the backend does and whatever
\* integer max_attempts is: they make at most max_attempts status checks and
\* then have returned or raised TimeoutError; with max_attempts <= 0 they
\* make no check and no sleep and raise TimeoutError at once.
C40_PollLoopsTerminate ==
    /\ []ChecksWithinBudget
    /\ (InWait /\ pc # "done") ~> WaitLoopOver

\* A loop called with a negative max_attempts has raised TimeoutError.
C40_Witness ==
    /\ InWaitDeletion /\ RaisedTimeout
    /\ max_attempts.n < 0 /\ obs.checks = 0

\* A loop that used up a positive max_attempts.
C40_WitnessExhausted ==
    /\ InWaitCreation /\ RaisedTimeout
    /\ max_attempts.n = MaxAttempts /\ obs.checks = MaxAttempts

====
